---- MODULE Spec2Model ----
(***************************************************************************)
(* Question-answering pipeline of the PDF query tool                      *)
(* (src/src/utils/PDFServices.ts, src/unnamed/part_002).                   *)
(*                                                                         *)
(* A JavaScript string is modelled as a sequence of one-character strings. *)
(* A fixed phrase of a template literal that no code path inspects (the    *)
(* wording of an answer) is kept as one element holding the whole phrase.  *)
(***************************************************************************)
EXTENDS Integers, Sequences, FiniteSets, TLC

(***************************************************************************)
(* Bounds of the model                                                     *)
(***************************************************************************)
\* Largest number of documents handed to one askQuestion call.
MaxDocs == 4

(***************************************************************************)
(* JavaScript string primitives                                            *)
(***************************************************************************)
UpperChars == <<"A", "B", "C", "D", "E", "F", "G", "H", "I", "J", "K", "L", "M",
                "N", "O", "P", "Q", "R", "S", "T", "U", "V", "W", "X", "Y", "Z">>

LowerChars == <<"a", "b", "c", "d", "e", "f", "g", "h", "i", "j", "k", "l", "m",
                "n", "o", "p", "q", "r", "s", "t", "u", "v", "w", "x", "y", "z">>

DigitChars == <<"0", "1", "2", "3", "4", "5", "6", "7", "8", "9">>

Range(s) == {s[i] : i \in 1..Len(s)}

Min(a, b) == IF a < b THEN a ELSE b

\* \s of a JavaScript regular expression (the whitespace the texts use).
IsSpace(c) == c \in {" ", "\n", "\t"}

\* \w of a JavaScript regular expression.
IsWordChar(c) == c \in Range(UpperChars) \cup Range(LowerChars) \cup Range(DigitChars) \cup {"_"}

\* String.prototype.toLowerCase, one character.
LowerChar(c) ==
  IF c \in Range(UpperChars)
    THEN LowerChars[CHOOSE i \in 1..Len(UpperChars) : UpperChars[i] = c]
    ELSE c

\* String.prototype.toLowerCase
toLowerCase(s) == [i \in 1..Len(s) |-> LowerChar(s[i])]

\* String.prototype.substring(0, n)
substring(s, n) == SubSeq(s, 1, Min(n, Len(s)))

\* s.replace(/[^\w\s]/g, '')
stripPunctuation(s) == SelectSeq(s, LAMBDA c : IsWordChar(c) \/ IsSpace(c))

\* String.prototype.trim
RECURSIVE trimStart(_)
trimStart(s) == IF s # <<>> /\ IsSpace(Head(s)) THEN trimStart(Tail(s)) ELSE s

RECURSIVE trimEnd(_)
trimEnd(s) ==
  IF s # <<>> /\ IsSpace(s[Len(s)]) THEN trimEnd(SubSeq(s, 1, Len(s) - 1)) ELSE s

trim(s) == trimEnd(trimStart(s))

\* String.prototype.startsWith
startsWith(s, p) == Len(p) <= Len(s) /\ SubSeq(s, 1, Len(p)) = p

\* String.prototype.endsWith
endsWith(s, p) == Len(p) <= Len(s) /\ SubSeq(s, Len(s) - Len(p) + 1, Len(s)) = p

\* String.prototype.includes
includes(s, w) ==
  \E i \in 0..(Len(s) - Len(w)) : \A j \in 1..Len(w) : s[i + j] = w[j]

\* Array.prototype.join
RECURSIVE join(_, _)
join(parts, sep) ==
  IF parts = <<>> THEN <<>>
  ELSE IF Len(parts) = 1 THEN parts[1]
  ELSE parts[1] \o sep \o join(Tail(parts), sep)

\* Least element of a non-empty set of numbers.
Least(S) == CHOOSE x \in S : \A y \in S : x <= y

\* First index >= i of s that holds no whitespace (Len(s) + 1 when none).
skipSpaces(s, i) == Least({j \in i..(Len(s) + 1) : j = Len(s) + 1 \/ ~IsSpace(s[j])})

\* The pieces of s from index p on, cut at the runs of whitespace that begin
\* at an index of starts.
RECURSIVE splitFrom(_, _, _)
splitFrom(s, p, starts) ==
  LET ahead == {i \in starts : i >= p}
  IN  IF ahead = {} THEN <<SubSeq(s, p, Len(s))>>
      ELSE <<SubSeq(s, p, Least(ahead) - 1)>>
             \o splitFrom(s, skipSpaces(s, Least(ahead)), starts)

\* s.split(/\s+/): every run of whitespace separates; a leading or a trailing
\* run leaves an empty token, and the empty string splits into one empty token.
splitWhitespace(s) ==
  splitFrom(s, 1, {i \in 1..Len(s) : IsSpace(s[i]) /\ (i = 1 \/ ~IsSpace(s[i - 1]))})

\* s.split(/(?<=[.!?])\s+/): a run of whitespace that follows a sentence
\* terminator separates two sentences; the terminator stays with the first.
splitSentences(s) ==
  splitFrom(s, 1, {i \in 2..Len(s) : IsSpace(s[i]) /\ s[i - 1] \in {".", "!", "?"}})

\* Template-literal conversion of a small non-negative number.
numberToString(n) ==
  IF n < 10 THEN <<DigitChars[n + 1]>>
  ELSE <<DigitChars[(n \div 10) + 1], DigitChars[(n % 10) + 1]>>

\* The value JavaScript calls undefined, where a string was expected.
Undefined == <<"undefined">>

(***************************************************************************)
(* Documents (PDFDocument) and their processing                            *)
(***************************************************************************)
\* PDFServices.createPDFDocument: the record of a newly added file.
createPDFDocument(id, name) ==
  [id |-> id, name |-> name, isProcessing |-> TRUE, isProcessed |-> FALSE,
   pages |-> <<>>, content |-> Undefined, error |-> Undefined]

\* What extractTextFromPDF did for one file: it threw (the file could not be
\* loaded) or it returned the page texts.
Extracted(pages) == [threw |-> FALSE, pages |-> pages]

ExtractionThrew == [threw |-> TRUE, pages |-> <<>>]

\* Variant: a failed extraction leaves no error message on the document.
processPDFDocumentWithoutMessage(document, extraction) ==
  IF extraction.threw \/ Len(extraction.pages) = 0
       \/ trim(join(extraction.pages, <<" ">>)) = <<>>
    THEN [document EXCEPT !.isProcessing = FALSE, !.isProcessed = FALSE]
    ELSE [document EXCEPT !.isProcessing = FALSE, !.isProcessed = TRUE,
            !.error = Undefined, !.content = join(extraction.pages, <<" ">>),
            !.pages = extraction.pages]

\* Variant: the extracted content is not verified.
processPDFDocumentWithoutContentCheck(document, extraction) ==
  IF extraction.threw \/ Len(extraction.pages) = 0
    THEN [document EXCEPT !.isProcessing = FALSE, !.isProcessed = FALSE,
            !.error = <<"Failed to process ">> \o document.name]
    ELSE [document EXCEPT !.isProcessing = FALSE, !.isProcessed = TRUE,
            !.error = Undefined, !.content = join(extraction.pages, <<" ">>),
            !.pages = extraction.pages]

\* PDFServices.processPDFDocument, given the outcome of the extraction.
processPDFDocument(document, extraction) ==
  LET content == join(extraction.pages, <<" ">>)
      failed(reason) ==
        [document EXCEPT !.isProcessing = FALSE, !.isProcessed = FALSE,
           !.error = <<"Failed to process ">> \o document.name \o <<": ">> \o reason]
  IN  IF extraction.threw
        THEN failed(<<"Error: the file could not be loaded">>)
      ELSE IF Len(extraction.pages) = 0
        THEN failed(<<"Error: Failed to extract pages from PDF">>)
      ELSE IF trim(content) = <<>>
        THEN failed(<<"Error: Extracted content is empty">>)
      ELSE [document EXCEPT !.isProcessing = FALSE, !.isProcessed = TRUE,
              !.error = Undefined, !.content = content, !.pages = extraction.pages]

\* doc.isProcessed && !doc.isProcessing
IsReady(doc) == doc.isProcessed /\ ~doc.isProcessing

\* !doc.isProcessed && !doc.isProcessing
IsFailed(doc) == ~doc.isProcessed /\ ~doc.isProcessing

(***************************************************************************)
(* The inputs the model draws from                                         *)
(***************************************************************************)
NameA == <<"a", ".", "p", "d", "f">>
NameB == <<"b", ".", "p", "d", "f">>
NameC == <<"c", ".", "p", "d", "f">>
NameP == <<"p", ".", "p", "d", "f">>
NameQ == <<"q", ".", "p", "d", "f">>
NameF == <<"f", ".", "p", "d", "f">>

\* "revenue grew 20% in Q3"
PageRevenue == <<"r", "e", "v", "e", "n", "u", "e", " ", "g", "r", "e", "w", " ",
                 "2", "0", "%", " ", "i", "n", " ", "Q", "3">>

\* "Costs fell. Revenue rose!"
PageCosts == <<"C", "o", "s", "t", "s", " ", "f", "e", "l", "l", ".", " ",
               "R", "e", "v", "e", "n", "u", "e", " ", "r", "o", "s", "e", "!">>

\* "Profit is flat."
PageProfit == <<"P", "r", "o", "f", "i", "t", " ", "i", "s", " ", "f", "l", "a", "t", ".">>

\* "no data here"
PageNoData == <<"n", "o", " ", "d", "a", "t", "a", " ", "h", "e", "r", "e">>

\* Two documents still being processed, one whose extraction failed, and four
\* processed documents (one of two pages, the second page blank; two of them
\* carry the same file name).
DocumentPool ==
  { createPDFDocument(1, NameP),
    createPDFDocument(2, NameQ),
    processPDFDocument(createPDFDocument(3, NameF), ExtractionThrew),
    processPDFDocument(createPDFDocument(4, NameA), Extracted(<<PageRevenue>>)),
    processPDFDocument(createPDFDocument(5, NameB), Extracted(<<PageCosts, <<>>>>)),
    processPDFDocument(createPDFDocument(6, NameC), Extracted(<<PageProfit>>)),
    processPDFDocument(createPDFDocument(7, NameA), Extracted(<<PageNoData>>)) }

RECURSIVE DocumentLists(_)
DocumentLists(n) ==
  IF n = 0 THEN {<<>>}
  ELSE LET shorter == DocumentLists(n - 1)
       IN  shorter \cup
           { Append(l, d) : l \in {x \in shorter : Len(x) = n - 1},
                            d \in DocumentPool }

\* The document sets of the model: lists of at most MaxDocs documents with
\* distinct ids.
DocumentSets ==
  { l \in DocumentLists(MaxDocs) :
      \A i, j \in 1..Len(l) : i # j => l[i].id # l[j].id }

\* "What was the revenue?"
QuestionRevenue == <<"W", "h", "a", "t", " ", "w", "a", "s", " ", "t", "h", "e", " ",
                     "r", "e", "v", "e", "n", "u", "e", "?">>

\* "What is this?": every word is short or a stop word.
QuestionStopWords == <<"W", "h", "a", "t", " ", "i", "s", " ", "t", "h", "i", "s", "?">>

\* "Where are profits?": its keyword occurs in no page.
QuestionProfits == <<"W", "h", "e", "r", "e", " ", "a", "r", "e", " ",
                     "p", "r", "o", "f", "i", "t", "s", "?">>

Questions == {QuestionRevenue, QuestionStopWords, QuestionProfits}

ApiKey == <<"sk-secret">>

ModelName == <<"model-id">>

\* AIConfig values: each provider with and without apiKey and model.
AIConfigs ==
  { [provider |-> "transformers", apiKey |-> Undefined, model |-> Undefined],
    [provider |-> "transformers", apiKey |-> ApiKey, model |-> ModelName] }
  \cup
  { [provider |-> p, apiKey |-> c.apiKey, model |-> c.model] :
      p \in {"openai", "claude"},
      c \in { [apiKey |-> Undefined, model |-> Undefined],
              [apiKey |-> <<>>, model |-> ModelName],
              [apiKey |-> ApiKey, model |-> Undefined],
              [apiKey |-> ApiKey, model |-> ModelName] } }

\* JavaScript truthiness of an optional string.
Truthy(s) == s # Undefined /\ s # <<>>

(***************************************************************************)
(* Results of a step that may throw                                        *)
(***************************************************************************)
Ret(v) == [threw |-> FALSE, value |-> v]

Throw == [threw |-> TRUE, value |-> Undefined]

\* try { body } catch { return fallback }
tryCatch(body, fallback) == IF body.threw THEN Ret(fallback) ELSE body

names(docs) == [i \in 1..Len(docs) |-> docs[i].name]

\* Ids of the documents of docs that have page text to read.
WithPages(docs) == {docs[i].id : i \in {j \in 1..Len(docs) : Len(docs[j].pages) > 0}}

\* The check each strategy starts with:
\* documents.filter(doc => !doc.isProcessed)
strategyUnprocessed(documents) == SelectSeq(documents, LAMBDA d : ~d.isProcessed)

StillProcessedAnswer(docs) ==
  <<"Some documents are still being processed: ">> \o join(names(docs), <<",", " ">>)
    \o <<". Please wait for processing to complete.">>

(***************************************************************************)
(* Remote strategies: getOpenAIAnswer, getClaudeAnswer                     *)
(***************************************************************************)
\* Pages sent in full, and the characters kept of each.
RemoteFullPages == 4

RemoteFullPageChars == 2000

RemoteSampleChars == 200

\* documentContexts of one document.
RECURSIVE remotePageSections(_, _)
remotePageSections(pages, i) ==
  IF i > Len(pages) THEN <<>>
  ELSE LET section ==
             IF trim(pages[i]) = <<>> THEN <<>>
             ELSE IF i <= RemoteFullPages
               THEN << <<"[Page ">> \o numberToString(i) \o <<"]:\n">>
                       \o substring(pages[i], RemoteFullPageChars) >>
               ELSE << <<"[Page ">> \o numberToString(i) \o <<" sample]:\n">>
                       \o substring(pages[i], RemoteSampleChars) \o <<"...">> >>
           more ==
             IF i = RemoteFullPages /\ Len(pages) > RemoteFullPages
               THEN << <<"[Additional content]: This document has ">>
                       \o numberToString(Len(pages) - RemoteFullPages)
                       \o <<" more pages not shown in full.">> >>
               ELSE <<>>
       IN  section \o more \o remotePageSections(pages, i + 1)

RECURSIVE remoteSections(_)
remoteSections(documents) ==
  IF documents = <<>> THEN <<>>
  ELSE LET doc == Head(documents)
       IN  (IF Len(doc.pages) = 0 THEN <<>>
            ELSE << <<"Document: \"">> \o doc.name \o <<"\" (">>
                    \o numberToString(Len(doc.pages)) \o <<" pages)">> >>
                 \o remotePageSections(doc.pages, 1))
           \o remoteSections(Tail(documents))

\* const context = documentContexts.join('\n\n')
remoteContext(documents) == join(remoteSections(documents), <<"\n", "\n">>)

\* model: string = "gpt-4o-mini"
OpenAIDefaultModel == <<"gpt-4o-mini">>

\* model: string = "claude-3-haiku-20240307"
ClaudeDefaultModel == <<"claude-3-haiku-20240307">>

\* The request fetch() sends.
remoteRequest(target, question, documents, apiKey, model, defaultModel) ==
  [target |-> target,
   credential |-> apiKey,
   model |-> IF model = Undefined THEN defaultModel ELSE model,
   prompt |-> <<"Question: ">> \o question
                \o <<"\n\nHere's the content from the uploaded documents:\n\n">>
                \o remoteContext(documents)]

OpenAIKeyAnswer ==
  <<"Error: Invalid or missing API key. Please check your OpenAI API key.">>

OpenAIGenericAnswer ==
  <<"Sorry, there was an error connecting to OpenAI. Please try again later.">>

ClaudeKeyAnswer ==
  <<"Error: Invalid or missing API key. Please check your Claude API key.">>

ClaudeGenericAnswer ==
  <<"Sorry, there was an error connecting to Claude. Please try again later.">>

\* errorData.error?.message || response.statusText
errorMessage(resp) ==
  IF resp.body.shape = "error_message" /\ resp.body.text # <<>>
    THEN resp.body.text
    ELSE resp.statusText

\* The statements of getOpenAIAnswer's try block from the fetch on.
openAIAfterFetch(resp) ==
  IF resp.kind = "rejected" THEN Throw
  ELSE IF resp.body.shape = "unparsable" THEN Throw
  ELSE IF ~resp.ok
    THEN IF resp.status = 401
           THEN Ret(OpenAIKeyAnswer)
           ELSE Ret(<<"Error connecting to OpenAI: ">> \o errorMessage(resp))
  \* data.choices[0].message.content.trim()
  ELSE IF resp.body.shape \in {"missing_list", "empty_list", "missing_message", "missing_leaf"}
    THEN Throw
  ELSE Ret(trim(resp.body.text))

\* getOpenAIAnswer once the fetch has settled: whatever the try block throws,
\* the catch answers with the generic string.
getOpenAIAnswer(resp) == tryCatch(openAIAfterFetch(resp), OpenAIGenericAnswer)

\* The statements of getClaudeAnswer's try block from the fetch on.
claudeAfterFetch(resp) ==
  IF resp.kind = "rejected" THEN Throw
  ELSE IF resp.body.shape = "unparsable" THEN Throw
  ELSE IF ~resp.ok
    THEN IF resp.status = 401
           THEN Ret(ClaudeKeyAnswer)
           ELSE Ret(<<"Error connecting to Claude: ">> \o errorMessage(resp))
  \* data.content[0].text: reading .text of a block that has none gives undefined
  ELSE IF resp.body.shape \in {"missing_list", "empty_list"} THEN Throw
  ELSE IF resp.body.shape = "missing_leaf" THEN Ret(Undefined)
  ELSE Ret(resp.body.text)

getClaudeAnswer(resp) == tryCatch(claudeAfterFetch(resp), ClaudeGenericAnswer)

\* What the remote call can come to.
ProviderMessage == <<"Rate limit reached">>

GeneratedText == <<" ">> \o <<"The revenue grew.">> \o <<"\n">>

ErrorResponses ==
  { [kind |-> "http", ok |-> FALSE, status |-> st.code, statusText |-> st.text, body |-> b] :
      st \in { [code |-> 401, text |-> <<"Unauthorized">>],
               [code |-> 429, text |-> <<"Too Many Requests">>],
               [code |-> 500, text |-> <<>>] },
      b \in { [shape |-> "unparsable", text |-> <<>>],
              [shape |-> "error_message", text |-> ProviderMessage],
              [shape |-> "error_message", text |-> <<>>],
              [shape |-> "no_error", text |-> <<>>] } }

SuccessResponses(shapes) ==
  { [kind |-> "http", ok |-> TRUE, status |-> 200, statusText |-> <<"OK">>,
     body |-> [shape |-> sh, text |-> IF sh = "complete" THEN GeneratedText ELSE <<>>]] :
      sh \in shapes }

Rejected ==
  [kind |-> "rejected", ok |-> FALSE, status |-> 0, statusText |-> <<>>,
   body |-> [shape |-> "unparsable", text |-> <<>>]]

NoResponse ==
  [kind |-> "none", ok |-> FALSE, status |-> 0, statusText |-> <<>>,
   body |-> [shape |-> "unparsable", text |-> <<>>]]

OpenAIResponses ==
  {Rejected} \cup ErrorResponses
    \cup SuccessResponses({"unparsable", "missing_list", "empty_list", "missing_message",
                           "missing_leaf", "complete"})

ClaudeResponses ==
  {Rejected} \cup ErrorResponses
    \cup SuccessResponses({"unparsable", "missing_list", "empty_list", "missing_leaf",
                           "complete"})

(***************************************************************************)
(* Local strategy, pattern-matching iteration: getTransformersAnswer       *)
(* (PDFServices.ts 318-408)                                                *)
(***************************************************************************)
MatchingPagesPerDocument == 3

MatchingPageChars == 1000

MatchingSentences == 5

StopWords ==
  { <<"w", "h", "a", "t">>,
    <<"w", "h", "e", "n">>,
    <<"w", "h", "e", "r", "e">>,
    <<"w", "h", "i", "c", "h">>,
    <<"w", "h", "o">>,
    <<"h", "o", "w">>,
    <<"d", "o", "e", "s">>,
    <<"i", "s">>,
    <<"a", "r", "e">>,
    <<"w", "a", "s">>,
    <<"w", "e", "r", "e">>,
    <<"w", "i", "l", "l">>,
    <<"w", "o", "u", "l", "d">>,
    <<"c", "o", "u", "l", "d">>,
    <<"s", "h", "o", "u", "l", "d">>,
    <<"c", "a", "n">>,
    <<"t", "h", "i", "s">>,
    <<"t", "h", "a", "t">>,
    <<"t", "h", "e", "s", "e">>,
    <<"t", "h", "o", "s", "e">>,
    <<"a", "b", "o", "u", "t">> }

RECURSIVE matchingPages(_, _)
matchingPages(pages, i) ==
  IF i > Min(Len(pages), MatchingPagesPerDocument) THEN <<>>
  ELSE (IF trim(pages[i]) = <<>> THEN <<>>
        ELSE <<"[", "P", "a", "g", "e", " ">> \o numberToString(i) \o <<"]", ":", "\n">>
               \o substring(pages[i], MatchingPageChars) \o <<"\n", "\n">>)
       \o matchingPages(pages, i + 1)

\* let context = ""; for (const doc of documents) { ... }
RECURSIVE matchingContext(_)
matchingContext(documents) ==
  IF documents = <<>> THEN <<>>
  ELSE LET doc == Head(documents)
       IN  (IF Len(doc.pages) = 0 THEN <<>>
            ELSE <<"D", "o", "c", "u", "m", "e", "n", "t", ":", " ">> \o doc.name
                   \o <<"\n", "\n">> \o matchingPages(doc.pages, 1))
           \o matchingContext(Tail(documents))

\* Break question into keywords
keywords(question) ==
  SelectSeq(splitWhitespace(stripPunctuation(toLowerCase(question))),
            LAMBDA word : Len(word) > 3 /\ word \notin StopWords)

\* Find sentences containing the keywords
relevantSentences(question, documents) ==
  LET kw == keywords(question)
  IN  SelectSeq(splitSentences(matchingContext(documents)),
                LAMBDA sentence :
                  \E k \in 1..Len(kw) : includes(toLowerCase(sentence), kw[k]))

MatchingFoundHeader == <<"Based on the documents, I found the following information:">>

MatchingDisclaimer ==
  <<"Note: This answer was generated using simple text matching since no AI API key was provided. For more accurate answers, please configure an OpenAI or Claude API key.">>

MatchingNotFoundAnswer ==
  <<"I couldn't find specific information about that in the uploaded documents. The basic search couldn't match your question with the document content. For better results, try using OpenAI or Claude with an API key.">>

LocalGenericAnswer ==
  <<"Sorry, there was an error processing your question locally. Please try again or configure an AI provider API key.">>

\* The statements of the try block of getTransformersAnswer (pattern matching).
matchingBody(question, documents) ==
  LET unprocessed == strategyUnprocessed(documents)
      relevant == relevantSentences(question, documents)
  IN  IF Len(unprocessed) > 0 THEN Ret(StillProcessedAnswer(unprocessed))
      ELSE IF Len(relevant) > 0
        THEN Ret(MatchingFoundHeader \o <<"\n", "\n">>
                 \o join(SubSeq(relevant, 1, Min(MatchingSentences, Len(relevant))),
                         <<"\n", "\n">>)
                 \o <<"\n", "\n">> \o MatchingDisclaimer)
      ELSE Ret(MatchingNotFoundAnswer)

getTransformersAnswerMatching(question, documents) ==
  tryCatch(matchingBody(question, documents), LocalGenericAnswer)

(***************************************************************************)
(* Local strategy, model-pipeline iteration: getTransformersAnswer         *)
(* (PDFServices.ts 882-1040)                                               *)
(***************************************************************************)
PipelinePagesPerDocument == 5

PipelinePageChars == 1500

QAPages == 5

RECURSIVE pipelinePages(_, _)
pipelinePages(pages, i) ==
  IF i > Min(Len(pages), PipelinePagesPerDocument) THEN <<>>
  ELSE (IF trim(pages[i]) = <<>> THEN <<>>
        ELSE <<"[Page ">> \o numberToString(i) \o <<"]:\n">>
               \o substring(pages[i], PipelinePageChars) \o <<"\n\n">>)
       \o pipelinePages(pages, i + 1)

RECURSIVE pipelineContext(_)
pipelineContext(documents) ==
  IF documents = <<>> THEN <<>>
  ELSE LET doc == Head(documents)
       IN  (IF Len(doc.pages) = 0 THEN <<>>
            ELSE <<"Document: ">> \o doc.name \o <<"\n\n">> \o pipelinePages(doc.pages, 1))
           \o pipelineContext(Tail(documents))

\* const prompt = `Document content:\n${context}\n\nQuestion: ${question}\n\nAnswer:`
pipelinePrompt(question, documents) ==
  <<"Document content:\n">> \o pipelineContext(documents) \o <<"\n\nQuestion: ">>
    \o question \o <<"\n\nAnswer:">>

PipelineNoResponseAnswer ==
  <<"I'm not able to generate a response based on the documents. Try asking a more specific question.">>

PipelineNoAnswer ==
  <<"I couldn't find a specific answer to your question in the documents.">>

PipelineTroubleAnswer ==
  <<"I'm having trouble processing your question with the local AI models. The documents have been loaded, but I can't generate a proper response. Try using an external AI provider like OpenAI or Claude for better results.">>

\* What the text-generation model returned: its form (an array of results, one
\* result object, or neither) and the generated_text of the (first) result,
\* Undefined when there is none or it is no string.
GeneratorOutputs(prompt) ==
  { [form |-> f, text |-> t] :
      f \in {"array", "object", "other"},
      t \in { Undefined, <<>>, prompt, prompt \o <<" ">> \o <<"Revenue grew.">>,
              <<"\"">> \o <<"Revenue grew.">> \o <<"\"">>, <<"Revenue grew.">> } }

\* The answer made of the generator's result (PDFServices.ts 940-967).
generatedAnswer(prompt, out) ==
  LET raw == IF out.form \in {"array", "object"} /\ out.text # Undefined
               THEN out.text ELSE <<>>
      unprompted == IF startsWith(raw, prompt)
                      THEN trim(SubSeq(raw, Len(prompt) + 1, Len(raw))) ELSE raw
      \* substring(1, length - 1); with one character the arguments swap
      unquoted == IF startsWith(unprompted, <<"\"">>) /\ endsWith(unprompted, <<"\"">>)
                       /\ Len(unprompted) > 1
                    THEN SubSeq(unprompted, 2, Len(unprompted) - 1) ELSE unprompted
  IN  IF unquoted # <<>> THEN unquoted ELSE PipelineNoResponseAnswer

\* documents.flatMap(doc => (doc.pages || []).map(...)).slice(0, 5)
RECURSIVE allPages(_)
allPages(documents) ==
  IF documents = <<>> THEN <<>>
  ELSE LET doc == Head(documents)
       IN  [i \in 1..Len(doc.pages) |->
              [documentName |-> doc.name, pageNumber |-> i, content |-> doc.pages[i]]]
           \o allPages(Tail(documents))

qaPages(documents) ==
  LET pages == allPages(documents) IN SubSeq(pages, 1, Min(QAPages, Len(pages)))

\* What the question-answering model did for one page: it threw, or returned
\* a result of some form with a score and an answer.
QAOutputs ==
  { [threw |-> TRUE, form |-> "other", score |-> 0, answer |-> <<>>] }
  \cup
  { [threw |-> FALSE, form |-> "other", score |-> 0, answer |-> <<>>] }
  \cup
  { [threw |-> FALSE, form |-> f, score |-> sc, answer |-> a] :
      f \in {"array", "object"},
      sc \in {0, 1, 2},
      a \in {<<>>, <<"twenty percent">>} }

\* One pass of the loop over the pages (PDFServices.ts 995-1026).
qaStep(best, page, out) ==
  IF ~out.threw /\ out.form \in {"array", "object"} /\ out.score > best.highestScore
    THEN [highestScore |-> out.score,
          bestAnswer |-> out.answer \o <<" (from ">> \o page.documentName \o <<", page ">>
                           \o numberToString(page.pageNumber) \o <<")">>]
    ELSE best

\* return bestAnswer || "..."
qaAnswer(best) == IF best.bestAnswer # <<>> THEN best.bestAnswer ELSE PipelineNoAnswer

(***************************************************************************)
(* Relevance scoring of the earlier iteration: findRelevantPassages        *)
(* (part_002 79-114)                                                       *)
(***************************************************************************)
LegacyStopWords ==
  { <<"w", "h", "a", "t">>,
    <<"w", "h", "e", "n">>,
    <<"w", "h", "e", "r", "e">>,
    <<"w", "h", "i", "c", "h">>,
    <<"w", "h", "o">>,
    <<"w", "h", "o", "m">>,
    <<"w", "h", "o", "s", "e">>,
    <<"w", "h", "y">>,
    <<"h", "o", "w">>,
    <<"d", "o", "e", "s">>,
    <<"d", "i", "d">>,
    <<"a", "b", "o", "u", "t">> }

questionWords(question) ==
  SelectSeq(splitWhitespace(toLowerCase(question)),
            LAMBDA word : Len(word) > 3 /\ word \notin LegacyStopWords)

\* Variant: a page is relevant only when it holds every question word.
isRelevantEveryWord(question, pageContent) ==
  LET words == questionWords(question)
  IN  \A w \in 1..Len(words) : includes(toLowerCase(pageContent), words[w])

isRelevant(question, pageContent) ==
  LET words == questionWords(question)
  IN  \E w \in 1..Len(words) : includes(toLowerCase(pageContent), words[w])

RECURSIVE findRelevantPassages(_, _)
findRelevantPassages(question, documents) ==
  IF documents = <<>> THEN <<>>
  ELSE LET doc == Head(documents)
           found == SelectSeq([i \in 1..Len(doc.pages) |->
                                 [documentName |-> doc.name, pageNumber |-> i,
                                  content |-> doc.pages[i]]],
                              LAMBDA p : isRelevant(question, p.content))
       IN  found \o findRelevantPassages(question, Tail(documents))

LegacyNothingFoundAnswer ==
  <<"I couldn't find specific information about that in the uploaded documents. Please try rephrasing your question or uploading additional documentation.">>

(***************************************************************************)
(* generateAnswerFromDocuments (PDFServices.ts 411-487)                    *)
(***************************************************************************)
UploadFirstAnswer == <<"Please upload PDF documents before asking questions.">>

\* Variant: the processing filter also takes the documents that failed.
processingDocsWithFailed(documents) == SelectSeq(documents, LAMBDA d : ~d.isProcessed)

\* documents.filter(doc => doc.isProcessing)
processingDocs(documents) == SelectSeq(documents, LAMBDA d : d.isProcessing)

\* Variant: the unprocessed filter passes over the documents that failed.
unprocessedDocsWithoutFailed(documents) ==
  SelectSeq(documents, LAMBDA d : ~d.isProcessed /\ d.isProcessing)

\* documents.filter(doc => !doc.isProcessed)
unprocessedDocs(documents) == SelectSeq(documents, LAMBDA d : ~d.isProcessed)

ProcessingAnswer(docs) ==
  <<"Some documents (">> \o join(names(docs), <<",", " ">>)
    \o <<") are still being processed. Please wait for processing to complete.">>

UnprocessedAnswer(docs) ==
  <<"Some documents (">> \o join(names(docs), <<",", " ">>)
    \o <<") haven't been fully processed yet. Please try again in a moment.">>

\* Variant: the validation lets a set with failed documents through to the
\* strategy.
validateDocumentsSkippingFailed(present, documents) ==
  IF ~present \/ Len(documents) = 0
    THEN [stop |-> TRUE, answer |-> UploadFirstAnswer]
  ELSE IF Len(processingDocs(documents)) > 0
    THEN [stop |-> TRUE, answer |-> ProcessingAnswer(processingDocs(documents))]
  ELSE [stop |-> FALSE, answer |-> Undefined]

\* Variant: the validation has no check for an empty or absent set.
validateDocumentsWithoutEmptyCheck(present, documents) ==
  IF Len(processingDocs(documents)) > 0
    THEN [stop |-> TRUE, answer |-> ProcessingAnswer(processingDocs(documents))]
  ELSE IF Len(unprocessedDocs(documents)) > 0
    THEN [stop |-> TRUE, answer |-> UnprocessedAnswer(unprocessedDocs(documents))]
  ELSE [stop |-> FALSE, answer |-> Undefined]

\* The validation the function starts with: the answer it returns at once,
\* or no answer (stop FALSE) when every check passes.
validateDocuments(present, documents) ==
  IF ~present \/ Len(documents) = 0
    THEN [stop |-> TRUE, answer |-> UploadFirstAnswer]
  ELSE IF Len(processingDocs(documents)) > 0
    THEN [stop |-> TRUE, answer |-> ProcessingAnswer(processingDocs(documents))]
  ELSE IF Len(unprocessedDocs(documents)) > 0
    THEN [stop |-> TRUE, answer |-> UnprocessedAnswer(unprocessedDocs(documents))]
  ELSE [stop |-> FALSE, answer |-> Undefined]

\* Variant: the dispatch looks at the provider alone.
selectStrategyByProvider(aiConfig) ==
  IF aiConfig.provider = "openai" THEN "openai"
  ELSE IF aiConfig.provider = "claude" THEN "claude"
  ELSE "local"

\* if (provider === "openai" && apiKey) ... else if (provider === "claude" &&
\* apiKey) ... else local
selectStrategy(aiConfig) ==
  IF aiConfig.provider = "openai" /\ Truthy(aiConfig.apiKey) THEN "openai"
  ELSE IF aiConfig.provider = "claude" /\ Truthy(aiConfig.apiKey) THEN "claude"
  ELSE "local"

SourceDocuments == 3

ExcerptChars == 200

\* Variant: every document gives a source.
sourceDocumentsUnsliced(documents) == documents

\* documents.slice(0, 3)
sourceDocuments(documents) == SubSeq(documents, 1, Min(SourceDocuments, Len(documents)))

\* documents.slice(0, 3).flatMap(doc => ...)
RECURSIVE sourcesOf(_)
sourcesOf(docs) ==
  IF docs = <<>> THEN <<>>
  ELSE LET doc == Head(docs)
       IN  (IF Len(doc.pages) = 0 THEN <<>>
            ELSE << [documentName |-> doc.name, pageNumber |-> 1,
                     excerpt |-> substring(doc.pages[1], ExcerptChars) \o <<".", ".", ".">>] >>)
           \o sourcesOf(Tail(docs))

createSources(documents) == sourcesOf(sourceDocuments(documents))

(***************************************************************************)
(* One askQuestion call as a state machine                                 *)
(***************************************************************************)
VARIABLES
  pc,                \* where the call stands: "idle", awaiting something, "done", "thrown"
  question,          \* the arguments of the call
  documents,
  documentsPresent,  \* FALSE when documents is null or undefined
  aiConfig,
  calls,             \* the answer strategies the call has invoked
  requests,          \* the requests the call has sent out of the process
  pagesRead,         \* ids of the documents whose page text the call has read
  response,          \* what the remote provider answered
  local,             \* the local strategy's variables
  result,            \* the QuestionAnswer the call resolved with
  previous,          \* the call before this one: its arguments and what it gave
  uiDocuments,       \* the page's state (Index.tsx): documents
  tasks,             \* the document-processing tasks handleFilesAdded has issued
  processing,
  globalError,       \* handleFilesAdded has taken its outer catch
  nextId,            \* the ids createPDFDocument has given out so far
  questionHistory,
  isAnswering,
  inFlight,          \* the askQuestion calls handleAskQuestion has started and not yet seen settle
  currentQuestion,
  currentAnswer,
  answerSources,
  settings           \* useLocalModel, aiProvider, the keys and the models

callVars == <<pc, question, documents, documentsPresent, aiConfig, calls, requests,
              pagesRead, response, local, result>>

pageVars == <<uiDocuments, tasks, processing, globalError, nextId, questionHistory,
              isAnswering, inFlight, currentQuestion, currentAnswer, answerSources,
              settings>>

vars == <<callVars, previous, pageVars>>

NoConfig == [provider |-> "none", apiKey |-> Undefined, model |-> Undefined]

NoResult == [question |-> Undefined, answer |-> Undefined, sources |-> <<>>]

NoLocal ==
  [iteration |-> "none", prompt |-> <<>>, index |-> 0,
   best |-> [highestScore |-> 0, bestAnswer |-> <<>>]]

\* The two iterations of getTransformersAnswer the repository holds.
LocalIterations == {"matching", "pipeline"}

\* pipeline(task, model) of @huggingface/transformers: the model is fetched
\* from the model hub.
modelRequest(model) ==
  [target |-> "huggingface", credential |-> Undefined, model |-> model, prompt |-> <<>>]

GeneratorModel == <<"TinyLlama/TinyLlama-1.1B-Chat-v1.0">>

QAModel == <<"distilbert-base-uncased-distilled-squad">>

\* The end of generateAnswerFromDocuments once the strategy has settled: the
\* function has no try/catch of its own, so what a strategy throws escapes.
package(q, docs, settled) ==
  IF settled.threw
    THEN [pc |-> "thrown", result |-> NoResult, read |-> {}]
    ELSE [pc |-> "done",
          result |-> [question |-> q, answer |-> settled.value,
                      sources |-> createSources(docs)],
          read |-> WithPages(sourceDocuments(docs))]

\* No call has been made yet.
NoPrevious ==
  [asked |-> FALSE, question |-> <<>>, documents |-> <<>>, aiConfig |-> NoConfig,
   iteration |-> "none", answer |-> Undefined, sources |-> <<>>]

\* The useState defaults of the page's AI settings (Index.tsx 31-36).
DefaultSettings ==
  [useLocalModel |-> TRUE, aiProvider |-> "transformers",
   openaiApiKey |-> <<>>, claudeApiKey |-> <<>>,
   openaiModel |-> OpenAIDefaultModel, claudeModel |-> ClaudeDefaultModel]

\* The settings after the mount effect has read localStorage (Index.tsx
\* 40-66): nothing saved, or a saved provider with or without its key.
SavedSettings ==
  { DefaultSettings,
    [DefaultSettings EXCEPT !.useLocalModel = FALSE, !.aiProvider = "openai"],
    [DefaultSettings EXCEPT !.useLocalModel = FALSE, !.aiProvider = "openai",
                            !.openaiApiKey = ApiKey],
    [DefaultSettings EXCEPT !.useLocalModel = FALSE, !.aiProvider = "claude",
                            !.claudeApiKey = ApiKey] }

\* No askQuestion call is under way.
CallIdle ==
  /\ pc = "idle"
  /\ question = <<>>
  /\ documents = <<>>
  /\ documentsPresent = TRUE
  /\ aiConfig = NoConfig
  /\ calls = {}
  /\ requests = {}
  /\ pagesRead = {}
  /\ response = NoResponse
  /\ local = NoLocal
  /\ result = NoResult

\* The page as its useState calls leave it (Index.tsx 20-36), with the given
\* settings.
PageMounted(s) ==
  /\ uiDocuments = <<>>
  /\ tasks = {}
  /\ processing = FALSE
  /\ globalError = FALSE
  /\ nextId = 0
  /\ questionHistory = <<>>
  /\ isAnswering = FALSE
  /\ inFlight = 0
  /\ currentQuestion = <<>>
  /\ currentAnswer = <<>>
  /\ answerSources = <<>>
  /\ settings = s

Init ==
  /\ CallIdle
  /\ previous = NoPrevious
  /\ PageMounted(DefaultSettings)

\* generateAnswerFromDocuments up to its first await (or to its return).
AskQuestion(q, docs, present, cfg, iteration) ==
  LET check == validateDocuments(present, docs)
      strategy == selectStrategy(cfg)
      inner == strategyUnprocessed(docs)
      early == package(q, docs, Ret(StillProcessedAnswer(inner)))
      matched == package(q, docs, getTransformersAnswerMatching(q, docs))
  IN
  /\ pc = "idle"
  /\ question' = q
  /\ documents' = docs
  /\ documentsPresent' = present
  /\ aiConfig' = cfg
  /\ response' = NoResponse
  /\ IF check.stop
       THEN /\ iteration = "none"
            /\ pc' = "done"
            /\ result' = [question |-> q, answer |-> check.answer, sources |-> <<>>]
            /\ calls' = {}
            /\ requests' = {}
            /\ pagesRead' = {}
            /\ local' = NoLocal
     ELSE IF strategy \in {"openai", "claude"}
       THEN /\ iteration = "none"
            /\ calls' = {strategy}
            /\ local' = NoLocal
            /\ IF Len(inner) > 0
                 THEN /\ pc' = early.pc
                      /\ result' = early.result
                      /\ requests' = {}
                      /\ pagesRead' = early.read
                 ELSE /\ pc' = IF strategy = "openai" THEN "openai_fetch" ELSE "claude_fetch"
                      /\ result' = NoResult
                      /\ requests' =
                           { remoteRequest(strategy, q, docs, cfg.apiKey, cfg.model,
                               IF strategy = "openai" THEN OpenAIDefaultModel
                                                      ELSE ClaudeDefaultModel) }
                      /\ pagesRead' = WithPages(docs)
     ELSE IF iteration = "matching"
       THEN /\ calls' = {"local"}
            /\ local' = [NoLocal EXCEPT !.iteration = "matching"]
            /\ requests' = {}
            /\ pc' = matched.pc
            /\ result' = matched.result
            /\ pagesRead' = (IF Len(inner) > 0 THEN {} ELSE WithPages(docs)) \cup matched.read
     ELSE /\ iteration = "pipeline"
          /\ calls' = {"local"}
          /\ IF Len(inner) > 0
               THEN /\ pc' = early.pc
                    /\ result' = early.result
                    /\ requests' = {}
                    /\ pagesRead' = early.read
                    /\ local' = [NoLocal EXCEPT !.iteration = "pipeline"]
               ELSE /\ pc' = "generator_load"
                    /\ result' = NoResult
                    /\ requests' = {modelRequest(GeneratorModel)}
                    /\ pagesRead' = WithPages(docs)
                    /\ local' = [NoLocal EXCEPT !.iteration = "pipeline",
                                                !.prompt = pipelinePrompt(q, docs)]

\* The fetch of getOpenAIAnswer settles; the function returns and
\* generateAnswerFromDocuments runs to its end.
OpenAIResponds(resp) ==
  LET end == package(question, documents, getOpenAIAnswer(resp))
  IN  /\ pc = "openai_fetch"
      /\ response' = resp
      /\ pc' = end.pc
      /\ result' = end.result
      /\ pagesRead' = pagesRead \cup end.read
      /\ UNCHANGED <<question, documents, documentsPresent, aiConfig, calls, requests, local>>
      /\ UNCHANGED <<previous, pageVars>>

\* Variant: getClaudeAnswer cuts the pages of the documents it was given down
\* to the part it sends.
ClaudeRespondsTruncating(resp) ==
  LET end == package(question, documents, getClaudeAnswer(resp))
  IN  /\ pc = "claude_fetch"
      /\ response' = resp
      /\ pc' = end.pc
      /\ result' = end.result
      /\ pagesRead' = pagesRead \cup end.read
      /\ documents' = [i \in 1..Len(documents) |->
                         [documents[i] EXCEPT !.pages =
                            SubSeq(@, 1, Min(RemoteFullPages, Len(@)) - 1)]]
      /\ UNCHANGED <<question, documentsPresent, aiConfig, calls, requests, local>>
      /\ UNCHANGED <<previous, pageVars>>

\* The same for getClaudeAnswer.
ClaudeResponds(resp) ==
  LET end == package(question, documents, getClaudeAnswer(resp))
  IN  /\ pc = "claude_fetch"
      /\ response' = resp
      /\ pc' = end.pc
      /\ result' = end.result
      /\ pagesRead' = pagesRead \cup end.read
      /\ UNCHANGED <<question, documents, documentsPresent, aiConfig, calls, requests, local>>
      /\ UNCHANGED <<previous, pageVars>>

\* catch (modelError): the question-answering pipeline is asked for.
FallBackToQA ==
  /\ pc' = "qa_load"
  /\ requests' = requests \cup {modelRequest(QAModel)}
  /\ UNCHANGED <<result, pagesRead, local>>

\* await pipeline("text-generation", ...) settles.
GeneratorLoads(loaded) ==
  /\ pc = "generator_load"
  /\ IF loaded
       THEN /\ pc' = "generator_run"
            /\ UNCHANGED <<requests, result, pagesRead, local>>
       ELSE FallBackToQA
  /\ UNCHANGED <<question, documents, documentsPresent, aiConfig, calls, response>>
  /\ UNCHANGED <<previous, pageVars>>

GeneratorThrew == [form |-> "threw", text |-> Undefined]

\* await generator(prompt, ...) settles.
GeneratorReturns(out) ==
  LET end == package(question, documents,
                     tryCatch(Ret(generatedAnswer(local.prompt, out)), LocalGenericAnswer))
  IN  /\ pc = "generator_run"
      /\ IF out = GeneratorThrew
           THEN FallBackToQA
           ELSE /\ pc' = end.pc
                /\ result' = end.result
                /\ pagesRead' = pagesRead \cup end.read
                /\ UNCHANGED <<requests, local>>
      /\ UNCHANGED <<question, documents, documentsPresent, aiConfig, calls, response>>
      /\ UNCHANGED <<previous, pageVars>>

\* await pipeline("question-answering", ...) settles.
QALoads(loaded) ==
  LET pages == qaPages(documents)
      answer == IF ~loaded THEN PipelineTroubleAnswer ELSE qaAnswer(local.best)
      end == package(question, documents, tryCatch(Ret(answer), LocalGenericAnswer))
  IN  /\ pc = "qa_load"
      /\ IF loaded /\ Len(pages) > 0
           THEN /\ pc' = "qa_run"
                /\ local' = [local EXCEPT !.index = 1]
                /\ UNCHANGED <<result, pagesRead>>
           ELSE /\ pc' = end.pc
                /\ result' = end.result
                /\ pagesRead' = pagesRead \cup end.read
                /\ UNCHANGED local
      /\ UNCHANGED <<question, documents, documentsPresent, aiConfig, calls, requests, response>>
      /\ UNCHANGED <<previous, pageVars>>

\* await qa(question, page.content.substring(0, 2000)) settles for one page.
QAReturns(out) ==
  LET pages == qaPages(documents)
      best == qaStep(local.best, pages[local.index], out)
      end == package(question, documents, tryCatch(Ret(qaAnswer(best)), LocalGenericAnswer))
  IN  /\ pc = "qa_run"
      /\ IF local.index < Len(pages)
           THEN /\ pc' = "qa_run"
                /\ local' = [local EXCEPT !.index = @ + 1, !.best = best]
                /\ UNCHANGED <<result, pagesRead>>
           ELSE /\ pc' = end.pc
                /\ result' = end.result
                /\ pagesRead' = pagesRead \cup end.read
                /\ local' = [local EXCEPT !.best = best]
      /\ UNCHANGED <<question, documents, documentsPresent, aiConfig, calls, requests, response>>
      /\ UNCHANGED <<previous, pageVars>>

\* The caller has taken the result (or the exception); the next call may start.
CallEnds ==
  /\ pc \in {"done", "thrown"}
  /\ pc' = "idle"
  /\ question' = <<>>
  /\ documents' = <<>>
  /\ documentsPresent' = TRUE
  /\ aiConfig' = NoConfig
  /\ calls' = {}
  /\ requests' = {}
  /\ pagesRead' = {}
  /\ response' = NoResponse
  /\ local' = NoLocal
  /\ result' = NoResult

Return ==
  /\ CallEnds
  /\ UNCHANGED <<previous, pageVars>>

\* A caller asks a question: any question, document set and configuration.
Ask ==
  /\ pc = "idle"
  /\ \E q \in Questions, cfg \in AIConfigs, present \in BOOLEAN,
        iteration \in LocalIterations \cup {"none"} :
       \E docs \in (IF present THEN DocumentSets ELSE {<<>>}) :
         AskQuestion(q, docs, present, cfg, iteration)
  /\ UNCHANGED <<previous, pageVars>>

Next ==
  \/ Ask
  \/ \E resp \in OpenAIResponses : OpenAIResponds(resp)
  \/ \E resp \in ClaudeResponses : ClaudeResponds(resp)
  \/ \E loaded \in BOOLEAN : GeneratorLoads(loaded)
  \/ \E out \in GeneratorOutputs(local.prompt) \cup {GeneratorThrew} : GeneratorReturns(out)
  \/ \E loaded \in BOOLEAN : QALoads(loaded)
  \/ \E out \in QAOutputs : QAReturns(out)
  \/ Return

Spec == Init /\ [][Next]_vars

(***************************************************************************)
(* The page (Index.tsx): documents, processing tasks, question history     *)
(***************************************************************************)
\* The files handed to handleFilesAdded over a run of the upload handlers,
\* and the questions answered over a run of the page.
MaxFiles == 3

MaxHistory == 2

\* The names of the files the user has at hand, in the order they are added.
FileNames == <<NameA, NameB>>

\* The name of the file that gets the given id.
FileName(id) == FileNames[((id - 1) % Len(FileNames)) + 1]

\* What extractTextFromPDF may do for a file: one page of text, or an
\* exception.
Extractions == {Extracted(<<PageRevenue>>), ExtractionThrew}

\* Variant: the map does not compare ids.
replaceEvery(docs, id, replacement) == [i \in 1..Len(docs) |-> replacement]

\* Variant: no document is taken for the one processed.
replaceNone(docs, id, replacement) == docs

\* documents.map(d => d.id === id ? replacement : d)
replaceById(docs, id, replacement) ==
  [i \in 1..Len(docs) |-> IF docs[i].id = id THEN replacement ELSE docs[i]]

\* The document the inner catch of handleFilesAdded makes (Index.tsx 129-136).
errorDoc(doc) ==
  [doc EXCEPT !.isProcessing = FALSE, !.isProcessed = FALSE,
              !.error = <<"Failed to process: Error">>]

\* handleFilesAdded up to its await: the documents are created and shown, and
\* one processing task per document is started (Index.tsx 107-116).
FilesAdded(n) ==
  LET newDocuments ==
        [i \in 1..n |-> createPDFDocument(nextId + i, FileName(nextId + i))]
  IN  /\ processing' = TRUE
      /\ uiDocuments' = uiDocuments \o newDocuments
      /\ tasks' = tasks \cup
           { [id |-> newDocuments[i].id, batch |-> nextId + 1, doc |-> newDocuments[i],
              settled |-> FALSE, rejected |-> FALSE, extraction |-> ExtractionThrew,
              processed |-> newDocuments[i]] : i \in 1..n }
      /\ nextId' = nextId + n
      /\ UNCHANGED <<globalError, questionHistory, isAnswering, inFlight, currentQuestion,
                     currentAnswer, answerSources, settings>>
      /\ UNCHANGED <<callVars, previous>>

\* One task of the batch runs to its end: processPDFDocument settles and the
\* document is replaced in the state (Index.tsx 116-143).
TaskSettles(t, extraction) ==
  LET settled == tryCatch(Ret(processPDFDocument(t.doc, extraction)), errorDoc(t.doc))
  IN  /\ t \in tasks
      /\ ~t.settled
      /\ uiDocuments' = IF settled.threw THEN uiDocuments
                        ELSE replaceById(uiDocuments, t.id, settled.value)
      /\ tasks' = (tasks \ {t}) \cup
           { [t EXCEPT !.settled = TRUE, !.rejected = settled.threw,
                       !.extraction = extraction,
                       !.processed = IF settled.threw THEN t.doc ELSE settled.value] }
      /\ UNCHANGED <<processing, globalError, nextId, questionHistory, isAnswering, inFlight,
                     currentQuestion, currentAnswer, answerSources, settings>>
      /\ UNCHANGED <<callVars, previous>>

\* The tasks of the batch that started with the given id.
batchTasks(b) == {t \in tasks : t.batch = b}

\* Promise.all settles and handleFilesAdded runs to its end: the outer catch
\* when a task rejected, and setProcessing(false) (Index.tsx 146-178).
BatchJoins(b) ==
  /\ batchTasks(b) # {}
  /\ \/ \A t \in batchTasks(b) : t.settled
     \/ \E t \in batchTasks(b) : t.rejected
  /\ globalError' = (globalError \/ \E t \in batchTasks(b) : t.rejected)
  /\ processing' = FALSE
  /\ tasks' = tasks \ batchTasks(b)
  /\ UNCHANGED <<uiDocuments, nextId, questionHistory, isAnswering, inFlight, currentQuestion,
                 currentAnswer, answerSources, settings>>
  /\ UNCHANGED <<callVars, previous>>

\* handleRemoveDocument (Index.tsx 181-186).
RemoveDocument(id) ==
  /\ \E i \in 1..Len(uiDocuments) : uiDocuments[i].id = id
  /\ uiDocuments' = SelectSeq(uiDocuments, LAMBDA d : d.id # id)
  /\ UNCHANGED <<tasks, processing, globalError, nextId, questionHistory, isAnswering, inFlight,
                 currentQuestion, currentAnswer, answerSources, settings>>
  /\ UNCHANGED <<callVars, previous>>

\* The key of the provider the settings name.
currentApiKey(s) == IF s.aiProvider = "openai" THEN s.openaiApiKey ELSE s.claudeApiKey

\* The checks handleAskQuestion starts with (Index.tsx 193-224).
askRejected(docs, s) ==
  \/ Len(docs) = 0
  \/ Len(SelectSeq(docs, LAMBDA d : d.isProcessing)) > 0
  \/ /\ ~s.useLocalModel
     /\ s.aiProvider # "transformers"
     /\ ~Truthy(currentApiKey(s))

\* The AIConfig handleAskQuestion prepares (Index.tsx 232-239).
preparedConfig(s) ==
  IF s.useLocalModel \/ s.aiProvider = "transformers"
    THEN [provider |-> "transformers", apiKey |-> Undefined, model |-> Undefined]
    ELSE [provider |-> s.aiProvider, apiKey |-> currentApiKey(s),
          model |-> IF s.aiProvider = "openai" THEN s.openaiModel ELSE s.claudeModel]

\* Variant: the form submits while a question is being answered.
handleSubmitWhileLoading(q, isLoading) == trim(q) # <<>>

\* QuestionInput.handleSubmit: whether the form hands the question to
\* onAskQuestion (part_001 20-26).
handleSubmit(q, isLoading) == trim(q) # <<>> /\ ~isLoading

\* handleAskQuestion up to its await (Index.tsx 192-246). It does not look at
\* isAnswering itself: called while a call is under way it starts another one,
\* of which the model keeps the count only.
HandleAskQuestion(q, iteration) ==
  /\ IF askRejected(uiDocuments, settings)
       THEN /\ iteration = "none"
            /\ UNCHANGED <<callVars, isAnswering, inFlight, currentQuestion,
                           currentAnswer, answerSources>>
       ELSE /\ isAnswering' = TRUE
            /\ inFlight' = inFlight + 1
            /\ currentQuestion' = q
            /\ currentAnswer' = <<>>
            /\ answerSources' = <<>>
            /\ IF pc = "idle"
                 THEN AskQuestion(q, uiDocuments, TRUE, preparedConfig(settings),
                                  iteration)
                 ELSE iteration = "none" /\ UNCHANGED callVars
  /\ UNCHANGED <<uiDocuments, tasks, processing, globalError, nextId, questionHistory,
                 settings, previous>>

SorryAnswer == <<"Sorry, there was an error generating an answer. Please try again.">>

\* Variant: the result replaces the history.
HandleAskQuestionSettlesReplacing ==
  /\ isAnswering
  /\ CallEnds
  /\ IF pc = "done"
       THEN /\ questionHistory' = <<result>>
            /\ currentAnswer' = result.answer
            /\ answerSources' = result.sources
       ELSE /\ currentAnswer' = SorryAnswer
            /\ UNCHANGED <<questionHistory, answerSources>>
  /\ isAnswering' = FALSE
  /\ inFlight' = inFlight - 1
  /\ UNCHANGED <<uiDocuments, tasks, processing, globalError, nextId, currentQuestion,
                 settings, previous>>

\* Variant: isAnswering is reset only when askQuestion threw.
HandleAskQuestionSettlesWithoutReset ==
  /\ isAnswering
  /\ CallEnds
  /\ IF pc = "done"
       THEN /\ questionHistory' = Append(questionHistory, result)
            /\ currentAnswer' = result.answer
            /\ answerSources' = result.sources
            /\ UNCHANGED isAnswering
            /\ inFlight' = inFlight - 1
       ELSE /\ currentAnswer' = SorryAnswer
            /\ isAnswering' = FALSE
            /\ inFlight' = inFlight - 1
            /\ UNCHANGED <<questionHistory, answerSources>>
  /\ UNCHANGED <<uiDocuments, tasks, processing, globalError, nextId, currentQuestion,
                 settings, previous>>

\* The rest of handleAskQuestion once askQuestion has settled (Index.tsx
\* 246-261).
HandleAskQuestionSettles ==
  /\ isAnswering
  /\ CallEnds
  /\ IF pc = "done"
       THEN /\ questionHistory' = Append(questionHistory, result)
            /\ currentAnswer' = result.answer
            /\ answerSources' = result.sources
       ELSE /\ currentAnswer' = SorryAnswer
            /\ UNCHANGED <<questionHistory, answerSources>>
  /\ isAnswering' = FALSE
  /\ inFlight' = inFlight - 1
  /\ UNCHANGED <<uiDocuments, tasks, processing, globalError, nextId, currentQuestion,
                 settings, previous>>

\* clearHistory (Index.tsx 264-269), behind the button shown while the
\* history is not empty (Index.tsx 438-448).
ClearHistory ==
  /\ Len(questionHistory) > 0
  /\ questionHistory' = <<>>
  /\ currentQuestion' = <<>>
  /\ currentAnswer' = <<>>
  /\ answerSources' = <<>>
  /\ UNCHANGED <<uiDocuments, tasks, processing, globalError, nextId, isAnswering, inFlight,
                 settings>>
  /\ UNCHANGED <<callVars, previous>>

\* The provider's answers and the local models' outputs the page's run draws
\* from.
PageResponses == {Rejected} \cup SuccessResponses({"complete"})

PageGeneratorOutputs == {GeneratorThrew, [form |-> "array", text |-> <<"Revenue grew.">>]}

PageQAOutputs ==
  { [threw |-> TRUE, form |-> "other", score |-> 0, answer |-> <<>>],
    [threw |-> FALSE, form |-> "object", score |-> 1, answer |-> <<"twenty percent">>] }

\* The user adds one or more of the files at hand, each file once.
UserAddsFiles ==
  \E n \in 1..Len(FileNames) : nextId + n <= Len(FileNames) /\ FilesAdded(n)

SomeTaskSettles ==
  \E t \in tasks, extraction \in Extractions : TaskSettles(t, extraction)

\* The user submits a question (at most MaxHistory of them are answered).
UserAsks ==
  /\ Len(questionHistory) < MaxHistory
  /\ handleSubmit(QuestionRevenue, isAnswering)
  /\ \E iteration \in LocalIterations \cup {"none"} :
       HandleAskQuestion(QuestionRevenue, iteration)

InitPage ==
  /\ CallIdle
  /\ previous = NoPrevious
  /\ \E s \in SavedSettings : PageMounted(s)

NextPage ==
  \/ UserAddsFiles
  \/ SomeTaskSettles
  \/ \E b \in 1..Len(FileNames) : BatchJoins(b)
  \/ \E id \in 1..Len(FileNames) : RemoveDocument(id)
  \/ UserAsks
  \/ \E resp \in PageResponses : OpenAIResponds(resp)
  \/ \E resp \in PageResponses : ClaudeResponds(resp)
  \/ \E loaded \in BOOLEAN : GeneratorLoads(loaded)
  \/ \E out \in PageGeneratorOutputs : GeneratorReturns(out)
  \/ \E loaded \in BOOLEAN : QALoads(loaded)
  \/ \E out \in PageQAOutputs : QAReturns(out)
  \/ HandleAskQuestionSettles
  \/ ClearHistory

SpecPage == InitPage /\ [][NextPage]_vars

\* The steps of a query under way: what it awaits settles, and
\* handleAskQuestion resumes once askQuestion has settled.
QueryProgresses ==
  \/ \E resp \in PageResponses : OpenAIResponds(resp)
  \/ \E resp \in PageResponses : ClaudeResponds(resp)
  \/ \E loaded \in BOOLEAN : GeneratorLoads(loaded)
  \/ \E out \in PageGeneratorOutputs : GeneratorReturns(out)
  \/ \E loaded \in BOOLEAN : QALoads(loaded)
  \/ \E out \in PageQAOutputs : QAReturns(out)
  \/ HandleAskQuestionSettles

\* The page where every awaited promise of a query eventually settles.
SpecPageFair == InitPage /\ [][NextPage]_vars /\ WF_vars(QueryProgresses)

(***************************************************************************)
(* The upload handlers alone, over more files and every extraction outcome *)
(***************************************************************************)
\* Extraction may also give no page, or pages of white space only.
FileExtractions ==
  Extractions \cup {Extracted(<<>>), Extracted(<< <<" ">>, <<>> >>)}

FilesArrive ==
  \E n \in 1..MaxFiles : nextId + n <= MaxFiles /\ FilesAdded(n)

AnyTaskSettles ==
  \E t \in tasks, extraction \in FileExtractions : TaskSettles(t, extraction)

NextFiles ==
  \/ FilesArrive
  \/ AnyTaskSettles
  \/ \E b \in 1..MaxFiles : BatchJoins(b)
  \/ \E id \in 1..MaxFiles : RemoveDocument(id)

SpecFiles == Init /\ [][NextFiles]_vars

\* The upload handlers where an extraction gives text or throws, every
\* extraction call eventually returns or fails, and a settled Promise.all
\* resumes handleFilesAdded.
NextFilesFair ==
  \/ FilesArrive
  \/ SomeTaskSettles
  \/ \E b \in 1..MaxFiles : BatchJoins(b)
  \/ \E id \in 1..MaxFiles : RemoveDocument(id)

SpecFilesFair ==
  /\ Init
  /\ [][NextFilesFair]_vars
  /\ WF_vars(SomeTaskSettles)
  /\ \A b \in 1..MaxFiles : WF_vars(BatchJoins(b))

(***************************************************************************)
(* The upload handlers over files whose pages may fail to extract          *)
(***************************************************************************)
\* Variant: a page that fails is left out.
extractTextFromPDFSkipping(file) ==
  IF ~file.loads THEN ExtractionThrew
  ELSE LET read == SelectSeq(file.pages, LAMBDA page : ~page.fails)
       IN  Extracted([i \in 1..Len(read) |-> join(read[i].items, <<" ">>)])

\* extractTextFromPDF (PDFServices.ts 46-84): the file loads or not, and each
\* page gives its text items or fails.
extractTextFromPDF(file) ==
  IF ~file.loads THEN ExtractionThrew
  ELSE Extracted([i \in 1..Len(file.pages) |->
                    IF file.pages[i].fails
                      THEN <<"[Error extracting text from page ">>
                             \o numberToString(i) \o <<"]">>
                      ELSE join(file.pages[i].items, <<" ">>)])

\* A file that cannot be loaded; one whose two pages both fail; one whose
\* second page fails; one whose only page holds no text.
PdfFiles ==
  LET fails == [fails |-> TRUE, items |-> <<>>]
      gives(items) == [fails |-> FALSE, items |-> items]
  IN  { [loads |-> FALSE, pages |-> <<>>],
        [loads |-> TRUE, pages |-> <<fails, fails>>],
        [loads |-> TRUE, pages |-> <<gives(<<PageRevenue, PageNoData>>), fails>>],
        [loads |-> TRUE, pages |-> <<gives(<<>>)>>] }

\* One task of a batch runs to its end on one of the files.
TaskExtracts ==
  \E t \in tasks, file \in PdfFiles : TaskSettles(t, extractTextFromPDF(file))

NextExtraction ==
  \/ FilesArrive
  \/ TaskExtracts
  \/ \E b \in 1..MaxFiles : BatchJoins(b)
  \/ \E id \in 1..MaxFiles : RemoveDocument(id)

SpecExtraction == Init /\ [][NextExtraction]_vars

(***************************************************************************)
(* The upload handlers of the earlier page (Index.tsx 582-638), which      *)
(* merges the processed documents after Promise.all                        *)
(***************************************************************************)
\* One task of a batch settles: processPDFDocument returns and the task's
\* promise holds the processed document (Index.tsx 594-600).
TaskSettlesEarlier ==
  \E t \in tasks, extraction \in FileExtractions :
    /\ ~t.settled
    /\ tasks' = (tasks \ {t}) \cup
         { [t EXCEPT !.settled = TRUE, !.extraction = extraction,
                     !.processed = processPDFDocument(t.doc, extraction)] }
    /\ UNCHANGED <<uiDocuments, processing, globalError, nextId, questionHistory,
                   isAnswering, inFlight, currentQuestion, currentAnswer, answerSources,
                   settings>>
    /\ UNCHANGED <<callVars, previous>>

\* Promise.all settles: the documents of the batch are taken out of the state
\* and the processed documents are put at its end (Index.tsx 602-608), then
\* setProcessing(false) (Index.tsx 628).
BatchJoinsEarlier(b) ==
  LET batch == batchTasks(b)
      processedDocuments ==
        [i \in 1..Cardinality(batch) |->
           (CHOOSE t \in batch : t.id = b + i - 1).processed]
      existingDocs ==
        SelectSeq(uiDocuments,
                  LAMBDA doc : ~\E i \in 1..Len(processedDocuments) :
                                   processedDocuments[i].id = doc.id)
  IN  /\ batch # {}
      /\ \A t \in batch : t.settled
      /\ uiDocuments' = existingDocs \o processedDocuments
      /\ processing' = FALSE
      /\ tasks' = tasks \ batch
      /\ UNCHANGED <<globalError, nextId, questionHistory, isAnswering, inFlight,
                     currentQuestion, currentAnswer, answerSources, settings>>
      /\ UNCHANGED <<callVars, previous>>

NextFilesEarlier ==
  \/ FilesArrive
  \/ TaskSettlesEarlier
  \/ \E b \in 1..MaxFiles : BatchJoinsEarlier(b)
  \/ \E id \in 1..MaxFiles : RemoveDocument(id)

SpecFilesEarlier == Init /\ [][NextFilesEarlier]_vars

(***************************************************************************)
(* The scenarios of the specification's section 8: one caller asks about a *)
(* few small document sets and then asks the same thing again              *)
(***************************************************************************)
\* "What was the revenue growth?"
QuestionGrowth == <<"W", "h", "a", "t", " ", "w", "a", "s", " ", "t", "h", "e", " ", "r",
    "e", "v", "e", "n", "u", "e", " ", "g", "r", "o", "w", "t", "h", "?">>

\* "What was the profit and revenue"
QuestionBoth == <<"W", "h", "a", "t", " ", "w", "a", "s", " ", "t", "h", "e", " ", "p",
    "r", "o", "f", "i", "t", " ", "a", "n", "d", " ", "r", "e", "v", "e", "n", "u", "e">>

\* Sets of processed one-page documents: a.pdf with the revenue page; a file
\* named revenue.pdf whose page does not mention revenue; two pages of equal
\* length, one with both words of QuestionBoth and one with only one of them,
\* in both orders; a page holding the words only inside longer words; a
\* page that mentions neither; and two documents of three pages each.
ScenarioDocumentSets ==
  LET ready(id, name, page) ==
        processPDFDocument(createPDFDocument(id, name), Extracted(<<page>>))
      \* "revenue.pdf"
      NameRevenue ==
        <<"r", "e", "v", "e", "n", "u", "e", ".", "p", "d", "f">>
      \* "revenue was flat here"
      PageFlat ==
        <<"r", "e", "v", "e", "n", "u", "e", " ", "w", "a", "s", " ", "f", "l", "a", "t", " ", "h", "e", "r", "e">>
      \* "profit and revenue up"
      PageBoth ==
        <<"p", "r", "o", "f", "i", "t", " ", "a", "n", "d", " ", "r", "e", "v", "e", "n", "u", "e", " ", "u", "p">>
      \* "nonprofit revenues up"
      PageNonprofit ==
        <<"n", "o", "n", "p", "r", "o", "f", "i", "t", " ", "r", "e", "v", "e", "n", "u", "e", "s", " ", "u", "p">>
  IN  { <<ready(4, NameA, PageRevenue)>>,
        <<ready(8, NameRevenue, PageNoData)>>,
        <<ready(9, NameB, PageFlat), ready(10, NameC, PageBoth)>>,
        <<ready(10, NameC, PageBoth), ready(9, NameB, PageFlat)>>,
        <<ready(11, NameC, PageNonprofit)>>,
        <<ready(7, NameA, PageNoData)>>,
        << processPDFDocument(createPDFDocument(12, NameB),
                              Extracted(<<PageNoData, PageRevenue, PageNoData>>)),
           processPDFDocument(createPDFDocument(13, NameC),
                              Extracted(<<PageNoData, PageNoData, PageNoData>>)) >> }

\* The first call of a scenario: the local strategy (either iteration) or a
\* provider with its key.
AskScenario ==
  /\ pc = "idle"
  /\ ~previous.asked
  /\ \E q \in {QuestionRevenue, QuestionGrowth, QuestionBoth},
        docs \in ScenarioDocumentSets,
        provider \in {"transformers", "openai", "claude"},
        iteration \in LocalIterations \cup {"none"} :
       AskQuestion(q, docs, TRUE,
                   [provider |-> provider,
                    apiKey |-> IF provider = "transformers" THEN Undefined ELSE ApiKey,
                    model |-> Undefined],
                   iteration)
  /\ UNCHANGED <<previous, pageVars>>

\* The caller calls again with the question, documents and config of the
\* call before.
AskAgain ==
  /\ pc = "idle"
  /\ previous.asked
  /\ AskQuestion(previous.question, previous.documents, TRUE, previous.aiConfig,
                 previous.iteration)
  /\ UNCHANGED <<previous, pageVars>>

\* The caller takes the result; after the first call it keeps what it asked
\* and what it got, after the second it starts over.
ReturnScenario ==
  /\ CallEnds
  /\ previous' =
       IF previous.asked THEN NoPrevious
       ELSE [asked |-> TRUE, question |-> question, documents |-> documents,
             aiConfig |-> aiConfig, iteration |-> local.iteration,
             answer |-> result.answer, sources |-> result.sources]
  /\ UNCHANGED pageVars

NextScenarios ==
  \/ AskScenario
  \/ AskAgain
  \/ \E resp \in OpenAIResponses : OpenAIResponds(resp)
  \/ \E resp \in ClaudeResponses : ClaudeResponds(resp)
  \/ \E loaded \in BOOLEAN : GeneratorLoads(loaded)
  \/ \E out \in GeneratorOutputs(local.prompt) \cup {GeneratorThrew} : GeneratorReturns(out)
  \/ \E loaded \in BOOLEAN : QALoads(loaded)
  \/ \E out \in QAOutputs : QAReturns(out)
  \/ ReturnScenario

SpecScenarios == Init /\ [][NextScenarios]_vars

(***************************************************************************)
(* Properties                                                              *)
(***************************************************************************)
\* The documents of the current call that satisfy P, in their order.
DocumentsWhere(P(_)) == SelectSeq(documents, P)

\* names.join(", ")
Listed(docs) == join([i \in 1..Len(docs) |-> docs[i].name], <<",", " ">>)

SomeDocument(P(_)) == \E i \in 1..Len(documents) : P(documents[i])

EveryDocument(P(_)) == \A i \in 1..Len(documents) : P(documents[i])

IsProcessingDoc(d) == d.isProcessing

IsUnprocessedDoc(d) == ~d.isProcessed

IsReadyDoc(d) == d.isProcessed /\ ~d.isProcessing

IsFailedDoc(d) == ~d.isProcessed /\ ~d.isProcessing

\* The call ended at once with the given answer: no sources, no strategy, no
\* request, no page read.
ShortCircuited(answer) ==
  /\ pc = "done"
  /\ result = [question |-> question, answer |-> answer, sources |-> <<>>]
  /\ calls = {}
  /\ requests = {}
  /\ pagesRead = {}

\* C1: a call whose document set holds a processing document ends at once
\* with the answer that lists the names of exactly the processing documents,
\* with no sources and no strategy invoked, also when failed documents are in
\* the set.
C1_ProcessingShortCircuit ==
  (pc # "idle" /\ SomeDocument(IsProcessingDoc)) =>
    ShortCircuited(<<"Some documents (">> \o Listed(DocumentsWhere(IsProcessingDoc))
      \o <<") are still being processed. Please wait for processing to complete.">>)

C1_Witness ==
  /\ pc = "done"
  /\ Len(DocumentsWhere(IsProcessingDoc)) = 2
  /\ SomeDocument(IsFailedDoc)
  /\ SomeDocument(IsReadyDoc)
  /\ result.sources = <<>>

C3_NeverThrowsAlwaysAnswers ==
  /\ pc # "thrown"
  /\ pc = "done" => /\ result.question = question
                    /\ result.answer # Undefined
                    /\ Len(result.sources) >= 0

\* C4: a call never holds more than 3 sources, and a short-circuit answer
\* holds none.
C4_AtMostThreeSources ==
  /\ Len(result.sources) <= 3
  /\ (pc = "done" /\ calls = {}) => result.sources = <<>>

C4_Witness ==
  /\ pc = "done"
  /\ Len(documents) > 3
  /\ EveryDocument(LAMBDA d : IsReadyDoc(d) /\ Len(d.pages) > 0)
  /\ Len(result.sources) = 3

\* C5: with no processing document and at least one failed document, the call
\* ends at once with the answer that lists the documents that are not
\* processed, with no sources and no strategy invoked.
C5_FailedShortCircuit ==
  (pc # "idle" /\ ~SomeDocument(IsProcessingDoc) /\ SomeDocument(IsFailedDoc)) =>
    ShortCircuited(<<"Some documents (">> \o Listed(DocumentsWhere(IsFailedDoc))
      \o <<") haven't been fully processed yet. Please try again in a moment.">>)

C5_Witness ==
  /\ pc = "done"
  /\ ~SomeDocument(IsProcessingDoc)
  /\ SomeDocument(IsFailedDoc)
  /\ Len(DocumentsWhere(IsReadyDoc)) >= 2
  /\ calls = {}

\* C6: with an empty or absent document set the call ends at once with the
\* fixed "Please upload PDF documents before asking questions." answer, no
\* sources and no strategy invoked, for every question and configuration.
C6_EmptySetShortCircuit ==
  (pc # "idle" /\ (~documentsPresent \/ Len(documents) = 0)) =>
    ShortCircuited(<<"Please upload PDF documents before asking questions.">>)

C6_Witness ==
  /\ pc = "done"
  /\ ~documentsPresent
  /\ aiConfig.provider = "openai"
  /\ aiConfig.apiKey = ApiKey
  /\ result.answer = <<"Please upload PDF documents before asking questions.">>

\* C7: when scoring the question against a set of ready documents yields no
\* passage, the call ends with the fixed "nothing relevant found" answer and
\* no sources, and no strategy is invoked.
C7_NoPassageShortCircuit ==
  (/\ pc # "idle"
   /\ documentsPresent
   /\ Len(documents) > 0
   /\ EveryDocument(IsReadyDoc)
   /\ findRelevantPassages(question, documents) = <<>>)
  => ShortCircuited(LegacyNothingFoundAnswer)

\* C8: both remote strategies turn every failure into an answer string: a
\* 401 gives the fixed API-key string, another non-success response a string
\* with the provider's message (or the status text), and a rejected fetch, an
\* unparsable body or a success body without the expected fields the generic
\* "try again later" string; nothing is thrown.
C8_RemoteFailuresRecovered ==
  /\ pc # "thrown"
  /\ (pc = "done" /\ response.kind # "none") =>
       LET openai == "openai" \in calls
           keyAnswer ==
             IF openai
               THEN <<"Error: Invalid or missing API key. Please check your OpenAI API key.">>
               ELSE <<"Error: Invalid or missing API key. Please check your Claude API key.">>
           generic ==
             IF openai
               THEN <<"Sorry, there was an error connecting to OpenAI. Please try again later.">>
               ELSE <<"Sorry, there was an error connecting to Claude. Please try again later.">>
           prefix ==
             IF openai THEN <<"Error connecting to OpenAI: ">>
                       ELSE <<"Error connecting to Claude: ">>
           parsed == response.kind = "http" /\ response.body.shape # "unparsable"
       IN  /\ (parsed /\ response.status = 401) => result.answer = keyAnswer
           /\ (parsed /\ ~response.ok /\ response.status # 401) =>
                \/ result.answer = prefix \o response.body.text /\ response.body.text # <<>>
                \/ result.answer = prefix \o response.statusText
           /\ (~parsed \/ (response.ok /\ response.body.shape # "complete")) =>
                result.answer = generic

\* C9: the local strategy sends no request out of the process (no network
\* call, no external model, no credential), never throws and always returns
\* a string.
C9_LocalStrategyIsLocal ==
  "local" \in calls =>
    /\ requests = {}
    /\ pc # "thrown"
    /\ pc = "done" => result.answer # Undefined

\* The strategy config.provider names.
StrategyOfProvider(provider) ==
  CASE provider = "openai" -> "openai"
    [] provider = "claude" -> "claude"
    [] OTHER -> "local"

\* C10: the strategy a call runs is the one config.provider names, whatever
\* apiKey and model are.
C10_ProviderAloneSelects ==
  calls # {} => calls = {StrategyOfProvider(aiConfig.provider)}

\* C10, amended: the strategy a call runs is selected by config.provider and
\* by whether apiKey is a non-empty string: "openai" or "claude" with a
\* non-empty apiKey run the OpenAI or Claude strategy; "transformers", and
\* "openai" or "claude" with a missing or empty apiKey, run the local
\* strategy; model never matters. Every call over ready documents runs
\* exactly that strategy.
C10_ProviderAndKeySelect ==
  LET hasKey == aiConfig.apiKey # Undefined /\ aiConfig.apiKey # <<>>
      expected == IF hasKey THEN StrategyOfProvider(aiConfig.provider) ELSE "local"
  IN  /\ calls # {} => calls = {expected}
      /\ (pc # "idle" /\ documentsPresent /\ Len(documents) > 0 /\ EveryDocument(IsReadyDoc))
           => calls = {expected}

C10_Witness ==
  /\ pc = "done"
  /\ aiConfig.provider = "openai"
  /\ aiConfig.apiKey = <<>>
  /\ aiConfig.model = ModelName
  /\ calls = {"local"}

\* The lifecycle state the flags of a document stand for.
Lifecycle(d) ==
  IF d.isProcessing THEN "processing"
  ELSE IF d.isProcessed THEN "ready"
  ELSE IF d.error # Undefined THEN "failed"
  ELSE "pending"

PageIds(docs) == {docs[i].id : i \in 1..Len(docs)}

PageDoc(docs, id) == docs[CHOOSE i \in 1..Len(docs) : docs[i].id = id]

\* One step of the page seen from its documents: a document that appears is
\* in the state created, and a document that stays is unchanged or moves
\* along one of the steps allowed.
LifecycleStep(created, allowed) ==
  \A id \in PageIds(uiDocuments') :
    LET new == PageDoc(uiDocuments', id)
    IN  IF id \notin PageIds(uiDocuments)
          THEN Lifecycle(new) = created
          ELSE LET old == PageDoc(uiDocuments, id)
               IN  new = old \/ <<Lifecycle(old), Lifecycle(new)>> \in allowed

\* C11: every document is created pending, enters processing only from
\* pending, reaches ready or failed only from processing, and is not changed
\* once it is ready or failed.
C11_LifecycleFromPending ==
  [][LifecycleStep("pending", {<<"pending", "processing">>, <<"processing", "ready">>,
                               <<"processing", "failed">>})]_vars

\* C11, amended: every document is created in the processing state (the code
\* has no pending state), reaches ready or failed only from processing, and
\* is not changed once it is ready or failed.
C11_LifecycleFromProcessing ==
  [][LifecycleStep("processing", {<<"processing", "ready">>,
                                  <<"processing", "failed">>})]_vars

C11_Witness ==
  /\ \E i \in 1..Len(uiDocuments) : Lifecycle(uiDocuments[i]) = "ready"
  /\ \E i \in 1..Len(uiDocuments) : Lifecycle(uiDocuments[i]) = "failed"
  /\ \E t \in tasks : ~t.settled
  /\ Len(uiDocuments) < nextId

\* The extraction gave text: it did not throw and some page is not blank.
GaveText(extraction) ==
  /\ ~extraction.threw
  /\ \E i \in 1..Len(extraction.pages) :
       \E j \in 1..Len(extraction.pages[i]) : ~IsSpace(extraction.pages[i][j])

\* C12: in a batch, each document whose task has settled is ready with its
\* pages when its own extraction gave text and failed with an error message
\* when it did not; the documents whose task still runs are untouched; no
\* task rejects and handleFilesAdded never takes its outer catch.
C12_FailureStaysLocal ==
  /\ ~globalError
  /\ \A t \in tasks :
       /\ ~t.rejected
       /\ t.id \in PageIds(uiDocuments) =>
            LET d == PageDoc(uiDocuments, t.id)
            IN  IF ~t.settled THEN d = t.doc
                ELSE IF GaveText(t.extraction)
                  THEN /\ Lifecycle(d) = "ready"
                       /\ d.pages = t.extraction.pages
                       /\ d.error = Undefined
                  ELSE /\ Lifecycle(d) = "failed"
                       /\ d.error # Undefined
                       /\ d.pages = <<>>

C12_Witness ==
  \E t, u, v \in tasks :
    /\ t.batch = u.batch /\ u.batch = v.batch
    /\ t.settled /\ t.extraction.threw
    /\ u.settled /\ GaveText(u.extraction)
    /\ ~v.settled
    /\ {t.id, u.id, v.id} \subseteq PageIds(uiDocuments)
    /\ Lifecycle(PageDoc(uiDocuments, t.id)) = "failed"
    /\ Lifecycle(PageDoc(uiDocuments, u.id)) = "ready"

\* C18: while a task of a batch is still running, no document of that batch
\* shows in the document set as ready or failed.
C18_JoinBeforeMerge ==
  \A t, u \in tasks :
    (t.batch = u.batch /\ ~u.settled /\ t.id \in PageIds(uiDocuments))
      => Lifecycle(PageDoc(uiDocuments, t.id)) \notin {"ready", "failed"}

\* C14: while a call is under way its arguments (the documents array with
\* every record, the AIConfig, the question) stay as they were passed, on
\* every path; and no step of asking (the call's start, its steps, its end)
\* alters the page's document set or settings.
C14_InputsUnchanged ==
  [][/\ (pc = "idle" /\ pc' # "idle") =>
          /\ documents' = uiDocuments
          /\ aiConfig' = preparedConfig(settings)
     /\ (pc # "idle" /\ pc' # "idle") =>
          /\ documents' = documents
          /\ documentsPresent' = documentsPresent
          /\ aiConfig' = aiConfig
          /\ question' = question
     /\ callVars' # callVars =>
          /\ uiDocuments' = uiDocuments
          /\ settings' = settings]_vars

C14_Witness ==
  /\ pc = "done"
  /\ calls = {"claude"}
  /\ response.kind = "rejected"
  /\ Len(documents) = 2
  /\ documents = uiDocuments
  /\ \A i \in 1..Len(documents) : Len(documents[i].pages) > 0

\* C15: the history changes only by a returned call appending its result at
\* the end, or by clearHistory emptying it (with the current question, answer
\* and sources, and nothing else); every returned call appends; a call that
\* threw, a rejected question, an upload or a removal leave it as it is.
C15_HistoryAppendOnly ==
  [][/\ \/ questionHistory' = questionHistory
        \/ /\ pc = "done" /\ pc' = "idle"
           /\ questionHistory' = Append(questionHistory, result)
        \/ /\ questionHistory' = <<>>
           /\ currentQuestion' = <<>>
           /\ currentAnswer' = <<>>
           /\ answerSources' = <<>>
           /\ UNCHANGED <<callVars, uiDocuments, tasks, processing, nextId, isAnswering, inFlight>>
     /\ (pc = "done" /\ pc' = "idle") =>
          questionHistory' = Append(questionHistory, result)
     /\ (pc = "thrown" /\ pc' = "idle") => questionHistory' = questionHistory]_vars

C15_Witness ==
  /\ Len(questionHistory) = 2
  /\ questionHistory[1].sources # <<>>
  /\ questionHistory[2].sources = <<>>
  /\ uiDocuments = <<>>
  /\ nextId = 2


(***************************************************************************)
(* C13                                                                     *)
(***************************************************************************)
\* The second of two calls with the same question, documents and config has
\* returned.
SecondCallReturned == pc = "done" /\ previous.asked

\* C13: a second call with the question, documents and config of the first
\* returns the sources the first returned, whatever the remote outcomes of
\* the two calls; with the local strategy it returns the same answer string
\* as well.
C13_RepeatedCallAgrees ==
  SecondCallReturned =>
    /\ result.sources = previous.sources
    /\ calls = {"local"} => result.answer = previous.answer


(***************************************************************************)
(* C16                                                                     *)
(***************************************************************************)
\* The call is about the single ready document a.pdf whose only page is
\* "revenue grew 20% in Q3", with the question "What was the revenue growth?".
RevenueGrowthScenario ==
  /\ pc # "idle"
  /\ question = QuestionGrowth
  /\ Len(documents) = 1
  /\ IsReadyDoc(documents[1])
  /\ documents[1].name = NameA
  /\ documents[1].pages = <<PageRevenue>>

\* C16 as stated: in the revenue-growth scenario the passage list is empty,
\* and the call returns the fixed "nothing relevant found" answer with no
\* sources.
C16_RevenueGrowthFindsNothing ==
  RevenueGrowthScenario =>
    /\ findRelevantPassages(question, documents) = <<>>
    /\ pc = "done" =>
         /\ result.answer \in {LegacyNothingFoundAnswer, MatchingNotFoundAnswer}
         /\ result.sources = <<>>

\* C16 amended: in the revenue-growth scenario the passage list holds exactly
\* the page of a.pdf (the question word "revenue" occurs in it), some sentence
\* matches a keyword, and the call returns an answer that is not the fixed
\* "nothing relevant found" string, with one source citing a.pdf page 1.
C16_RevenueGrowthMatches ==
  RevenueGrowthScenario =>
    /\ findRelevantPassages(question, documents) =
         << [documentName |-> NameA, pageNumber |-> 1, content |-> PageRevenue] >>
    /\ relevantSentences(question, documents) # <<>>
    /\ pc = "done" =>
         /\ result.answer \notin {LegacyNothingFoundAnswer, MatchingNotFoundAnswer}
         /\ result.sources =
              << [documentName |-> NameA, pageNumber |-> 1,
                  excerpt |-> PageRevenue \o <<".", ".", ".">>] >>

\* The revenue-growth call has returned from the pattern-matching strategy.
C16_Witness ==
  /\ RevenueGrowthScenario
  /\ pc = "done"
  /\ local.iteration = "matching"


(***************************************************************************)
(* C17                                                                     *)
(***************************************************************************)
\* The sentence holds a keyword of the question.
HoldsKeyword(sentence, q) ==
  LET kw == keywords(q)
  IN  \E k \in 1..Len(kw) : includes(toLowerCase(sentence), kw[k])

\* Some sentence of a candidate page (the page text the strategy reads, without
\* the "Document:" and "[Page n]:" lines it puts around it) holds a keyword.
PageSentenceMatches(q, docs) ==
  \E d \in 1..Len(docs) :
    \E i \in 1..Min(MatchingPagesPerDocument, Len(docs[d].pages)) :
      LET sentences == splitSentences(substring(docs[d].pages[i], MatchingPageChars))
      IN  \E j \in 1..Len(sentences) : HoldsKeyword(sentences[j], q)

\* C17: the pattern-matching local strategy, over ready documents, answers
\* with matched sentences followed by the disclaimer when a sentence of the
\* candidate pages holds a question keyword, and with the "could not find"
\* message (no disclaimer) when none does; for the page "revenue grew 20% in
\* Q3" and "What was the revenue?" the answer holds that sentence and the
\* disclaimer, and there is one citation.
C17_LocalAnswerFromPageSentences ==
  (/\ pc = "done"
   /\ local.iteration = "matching"
   /\ Len(documents) > 0
   /\ EveryDocument(IsReadyDoc))
  => /\ IF PageSentenceMatches(question, documents)
          THEN /\ startsWith(result.answer, MatchingFoundHeader)
               /\ endsWith(result.answer, MatchingDisclaimer)
          ELSE result.answer = MatchingNotFoundAnswer
     /\ (/\ question = QuestionRevenue
         /\ Len(documents) = 1
         /\ documents[1].pages = <<PageRevenue>>)
        => /\ includes(result.answer, PageRevenue)
           /\ endsWith(result.answer, MatchingDisclaimer)
           /\ Len(result.sources) = 1


(***************************************************************************)
(* C19 and C20                                                             *)
(***************************************************************************)
\* The number of times the keyword occurs in the text as a whole word,
\* compared case-insensitively.
WholeWordCount(text, keyword) ==
  LET words == splitWhitespace(stripPunctuation(toLowerCase(text)))
  IN  Cardinality({w \in 1..Len(words) : words[w] = keyword})

\* The text holds every keyword exactly once.
HoldsEveryKeywordOnce(text, kw) ==
  \A k \in 1..Len(kw) : WholeWordCount(text, kw[k]) = 1

\* The text holds exactly one of the keywords, once.
HoldsOneKeywordOnce(text, kw) ==
  \E k \in 1..Len(kw) :
    /\ WholeWordCount(text, kw[k]) = 1
    /\ \A other \in 1..Len(kw) : kw[other] # kw[k] => WholeWordCount(text, kw[other]) = 0

\* Passage A (every keyword once) must come before passage B (one keyword
\* once) of the same length.
RanksBefore(textA, textB, kw) ==
  /\ Len(kw) >= 2
  /\ Len(textA) = Len(textB)
  /\ HoldsEveryKeywordOnce(textA, kw)
  /\ HoldsOneKeywordOnce(textB, kw)

\* The page a source cites.
CitedText(source) ==
  LET d == CHOOSE k \in 1..Len(documents) : documents[k].name = source.documentName
  IN  documents[d].pages[source.pageNumber]

\* C19: of two passages of equal length, the one holding every question
\* keyword once comes before the one holding a single keyword once, in the
\* passage list and in the citations, whatever the order of their documents.
C19_EveryKeywordRanksFirst ==
  LET kw == keywords(question)
      passages == findRelevantPassages(question, documents)
  IN  /\ \A a, b \in 1..Len(passages) :
           RanksBefore(passages[a].content, passages[b].content, kw) => a < b
      /\ pc = "done" =>
           \A a, b \in 1..Len(result.sources) :
             RanksBefore(CitedText(result.sources[a]), CitedText(result.sources[b]), kw)
               => a < b

\* Some keyword occurs in the text as a whole word.
HoldsWholeWord(text, kw) ==
  \E k \in 1..Len(kw) : WholeWordCount(text, kw[k]) > 0

\* C20: a page or sentence is relevant only if a question keyword occurs in
\* the page text as a whole word, compared case-insensitively: not when the
\* keyword is only part of a longer word, and not when it occurs only in the
\* document-name line.
C20_WholeWordMatching ==
  LET passages == findRelevantPassages(question, documents)
  IN  /\ \A p \in 1..Len(passages) :
           HoldsWholeWord(passages[p].content, questionWords(question))
      /\ (pc # "idle" /\ relevantSentences(question, documents) # <<>>) =>
           \E d \in 1..Len(documents) :
             \E i \in 1..Min(MatchingPagesPerDocument, Len(documents[d].pages)) :
               HoldsWholeWord(substring(documents[d].pages[i], MatchingPageChars),
                              keywords(question))


(***************************************************************************)
(* C21                                                                     *)
(***************************************************************************)
\* The tokens of the question (lowercased, punctuation stripped, split on
\* whitespace) that have three characters or more and are no stop word.
TokensOfThreeOrMore(q) ==
  SelectSeq(splitWhitespace(stripPunctuation(toLowerCase(q))),
            LAMBDA word : Len(word) >= 3 /\ word \notin StopWords)

\* C21: tokenizing the question drops exactly the tokens of at most two
\* characters and the stop words, so every other token is a keyword, without
\* its punctuation; and both places that tokenize the question give the same
\* keywords.
C21_KeywordsOfThreeOrMore ==
  pc # "idle" =>
    /\ keywords(question) = TokensOfThreeOrMore(question)
    /\ questionWords(question) = keywords(question)


(***************************************************************************)
(* C22                                                                     *)
(***************************************************************************)
\* The page text matched the question: a question word of either tokenizer
\* occurs in it.
MatchedQuestion(q, pageContent) ==
  isRelevant(q, pageContent) \/ HoldsKeyword(pageContent, q)

\* C22: every citation of a returned answer names a page of the documents
\* that matched the question, with the first 200 characters of that page and
\* an ellipsis as its excerpt, and there are at most three; a page that
\* matched no keyword is not cited.
C22_CitationsAreMatchedPages ==
  pc = "done" =>
    /\ Len(result.sources) <= SourceDocuments
    /\ \A s \in 1..Len(result.sources) :
         \E d \in 1..Len(documents) :
           LET source == result.sources[s]
               doc == documents[d]
           IN  /\ doc.name = source.documentName
               /\ source.pageNumber \in 1..Len(doc.pages)
               /\ MatchedQuestion(question, doc.pages[source.pageNumber])
               /\ source.excerpt =
                    substring(doc.pages[source.pageNumber], ExcerptChars)
                      \o <<".", ".", ".">>


(***************************************************************************)
(* C23                                                                     *)
(***************************************************************************)
\* The page chunks of the context the remote strategies send.
RemotePageChunks(docs) ==
  LET sections == remoteSections(docs)
  IN  {i \in 1..Len(sections) : sections[i][1] \in {"[Page "}}

\* The page chunks of the context the pattern-matching strategy searches:
\* the places where a "[Page n]:" line starts.
MatchingPageChunks(docs) ==
  LET context == matchingContext(docs)
  IN  {i \in 1..(Len(context) - 1) : context[i] = "[" /\ context[i + 1] = "P"}

\* C23: whatever the number of documents and pages, the context handed to
\* answer synthesis holds at most 5 page chunks, each of at most 1500
\* characters of page text.
C23_ContextBounded ==
  (pc # "idle" /\ EveryDocument(IsReadyDoc)) =>
    /\ Cardinality(RemotePageChunks(documents)) <= 5
    /\ Cardinality(MatchingPageChunks(documents)) <= 5
    /\ \A d \in 1..Len(documents) : \A i \in 1..Len(documents[d].pages) :
         /\ Len(substring(documents[d].pages[i], RemoteFullPageChars)) <= 1500
         /\ Len(substring(documents[d].pages[i], MatchingPageChars)) <= 1500


(***************************************************************************)
(* C24                                                                     *)
(***************************************************************************)
\* The ids of the documents shown, in the order shown.
ShownIds == [i \in 1..Len(uiDocuments) |-> uiDocuments[i].id]

\* A processing task completes or a batch joins in this step: the tasks
\* change and no file is added.
CompletionStep == tasks' # tasks /\ nextId' = nextId

\* C24: the completion of a processing task puts no removed document back
\* and leaves the ids and the order of the documents shown as they were.
C24_RemovedStaysRemoved ==
  [][CompletionStep => ShownIds' = ShownIds]_vars


(***************************************************************************)
(* C25                                                                     *)
(***************************************************************************)
\* What processPDFDocument may return: no document still processing; a ready
\* document with pages, non-blank content and no error; a failed document
\* with an error message.
WellProcessed(d) ==
  /\ ~d.isProcessing
  /\ d.isProcessed =>
       /\ Len(d.pages) > 0
       /\ d.content # Undefined
       /\ trim(d.content) # <<>>
       /\ d.error = Undefined
  /\ ~d.isProcessed => d.error \notin {Undefined, <<>>}

\* C25: no document is processing and processed at once, and every document
\* processPDFDocument has returned is ready with pages, non-blank content and
\* no error, or failed with an error message, never still processing.
C25_OneLifecycleState ==
  /\ \A i \in 1..Len(uiDocuments) :
       ~(uiDocuments[i].isProcessing /\ uiDocuments[i].isProcessed)
  /\ \A t \in tasks :
       /\ ~(t.processed.isProcessing /\ t.processed.isProcessed)
       /\ t.settled => WellProcessed(t.processed)
  /\ \A i \in 1..Len(uiDocuments) :
       ~uiDocuments[i].isProcessing => WellProcessed(uiDocuments[i])

\* processPDFDocument has returned a ready document for one file and, for
\* another whose pages held white space only, a failed one; both are shown.
C25_Witness ==
  /\ \E t \in tasks :
       /\ t.settled
       /\ t.extraction = Extracted(<< <<" ">>, <<>> >>)
       /\ \E i \in 1..Len(uiDocuments) :
            uiDocuments[i].id = t.id /\ IsFailedDoc(uiDocuments[i])
  /\ \E i \in 1..Len(uiDocuments) : IsReadyDoc(uiDocuments[i])


(***************************************************************************)
(* C26                                                                     *)
(***************************************************************************)
\* The document with the given id is shown as processing.
ShownProcessing(id) ==
  \E i \in 1..Len(uiDocuments) : uiDocuments[i].id = id /\ uiDocuments[i].isProcessing

\* documents.some(doc => doc.isProcessing) (Index.tsx 286-287)
isAnyDocumentProcessing ==
  \E i \in 1..Len(uiDocuments) : uiDocuments[i].isProcessing

\* C26: provided every extraction call returns or fails, every document shown
\* as processing is later ready, failed or removed, and it is true again and
\* again that no document is processing, also when batches overlap.
C26_EveryUploadSettles ==
  /\ \A id \in 1..MaxFiles : ShownProcessing(id) ~> ~ShownProcessing(id)
  /\ []<>~isAnyDocumentProcessing

\* Two batches overlapped (tasks of both are still held) and every document
\* of both has left the processing state.
C26_Witness ==
  /\ \E t, u \in tasks : t.batch # u.batch
  /\ \A t \in tasks : t.settled
  /\ Len(uiDocuments) >= 2
  /\ ~isAnyDocumentProcessing


(***************************************************************************)
(* C27                                                                     *)
(***************************************************************************)
\* An askQuestion call of the page is under way or waits to be taken.
QueryInFlight == pc # "idle"

\* C27: isAnswering is true exactly while a query is in flight; after every
\* started query it is false again; and no step taken where the pre-checks
\* of handleAskQuestion reject a question sets it.
C27_AnsweringWhileInFlight ==
  /\ [](isAnswering <=> QueryInFlight)
  /\ isAnswering ~> ~isAnswering
  /\ [][(~isAnswering /\ askRejected(uiDocuments, settings)) => ~isAnswering']_vars

\* A first query has been answered and isAnswering is false again, and a
\* question would now be rejected because a document is processing.
C27_Witness ==
  /\ ~isAnswering
  /\ Len(questionHistory) > 0
  /\ isAnyDocumentProcessing
  /\ askRejected(uiDocuments, settings)


(***************************************************************************)
(* C28                                                                     *)
(***************************************************************************)
\* C28: at most one askQuestion call of the page is under way; while
\* isAnswering is true no step starts another; and each answer is appended to
\* the history, and shown as the current answer, as the result of the one
\* call under way, so in the order of the questions.
C28_OneQueryInFlight ==
  /\ [](inFlight <= 1)
  /\ [][isAnswering => inFlight' <= inFlight]_vars
  /\ [][Len(questionHistory') > Len(questionHistory) =>
          /\ questionHistory' = Append(questionHistory, result)
          /\ result.question = question
          /\ currentAnswer' = result.answer]_vars

\* A second question is being answered after the first one was answered.
C28_Witness ==
  /\ isAnswering
  /\ inFlight = 1
  /\ Len(questionHistory) = 1
  /\ pc \notin {"idle", "done"}


(***************************************************************************)
(* C29                                                                     *)
(***************************************************************************)
\* C29: whenever no query is in flight and an answer is displayed, the
\* question displayed is the one that produced it and the sources displayed
\* are its sources: the three are those of the last entry of the history.
\* In particular no answer is displayed with an empty question.
C29_QuestionAndAnswerTogether ==
  (~QueryInFlight /\ currentAnswer # <<>>) =>
    /\ currentQuestion # <<>>
    /\ Len(questionHistory) > 0
    /\ LET last == questionHistory[Len(questionHistory)]
       IN  /\ last.question = currentQuestion
           /\ last.answer = currentAnswer
           /\ last.sources = answerSources


(***************************************************************************)
(* C30                                                                     *)
(***************************************************************************)
\* The task has run extractTextFromPDF on the file.
ExtractedFrom(t, file) == t.settled /\ t.extraction = extractTextFromPDF(file)

\* C30: the extraction of a file fails only when the file cannot be loaded;
\* otherwise it gives one entry per page, in page order, a page that fails
\* giving a placeholder that names it; and a document whose pages all fail
\* is ready, with those placeholders as its pages.
C30_OneEntryPerPage ==
  \A t \in tasks : \A file \in PdfFiles :
    ExtractedFrom(t, file) =>
      /\ t.extraction.threw <=> ~file.loads
      /\ file.loads =>
           /\ Len(t.extraction.pages) = Len(file.pages)
           /\ \A i \in 1..Len(file.pages) :
                IF file.pages[i].fails
                  THEN /\ t.extraction.pages[i] # <<>>
                       /\ includes(t.extraction.pages[i], numberToString(i))
                  ELSE t.extraction.pages[i] = join(file.pages[i].items, <<" ">>)
      /\ (/\ file.loads
          /\ Len(file.pages) > 0
          /\ \A i \in 1..Len(file.pages) : file.pages[i].fails)
         => /\ IsReadyDoc(t.processed)
            /\ t.processed.pages = t.extraction.pages
            /\ \A i \in 1..Len(uiDocuments) :
                 uiDocuments[i].id = t.id => IsReadyDoc(uiDocuments[i])

\* A document whose two pages both failed to extract is shown as ready.
C30_Witness ==
  \E t \in tasks : \E file \in PdfFiles :
    /\ ExtractedFrom(t, file)
    /\ Len(file.pages) = 2
    /\ \A i \in 1..Len(file.pages) : file.pages[i].fails
    /\ \E i \in 1..Len(uiDocuments) :
         uiDocuments[i].id = t.id /\ IsReadyDoc(uiDocuments[i])

====
